---- MODULE Spec2Model ----
(***************************************************************************)
(* Model of the data-ingestion worker: the SQS consumer                    *)
(* (src/src/consumer.py), the job processor (src/src/processor.py), the    *)
(* repositories and the row validator.  One worker process; the database   *)
(* is the five tables jobs, staging, issues, issue_items, contacts.  Every *)
(* action is one committed database operation of the code (or the steps    *)
(* between two commits), so the states TLC visits are the states the       *)
(* database is in "after a committed operation".                           *)
(*                                                                         *)
(* Not modelled: timestamps (process_start, process_end, resolved_at),     *)
(* log output, a failure of the queue's own delete call.                   *)
(***************************************************************************)
EXTENDS Integers, Sequences, FiniteSets, TLC

\* ------------------------------------------------------------------ bounds
MaxRows == 2
MaxDeliveries == 3
MaxEdits == 2
MaxFaults == 1
MaxCalls == 2

\* ------------------------------------------------------------- value domain
\* Python's None for a CSV cell of a short row / a NULL column.
None == "None"

JobIds == {1, 2}
\* A job id that no row of the jobs table has (a stale message names it).
GhostJob == 3
Users == {"u1", "u2"}

Truthy(v) == v # None /\ v # ""

\* str.lower() and str.strip() on the strings of the model's domain.
Lower(s) ==
  CASE s = "A@x.io" -> "a@x.io"
    [] s = " A@x.io " -> " a@x.io "
    [] s = "None" -> "none"
    [] OTHER -> s

Strip(s) ==
  CASE s = " a@x.io " -> "a@x.io"
    [] s = " A@x.io " -> "A@x.io"
    [] s = " " -> ""
    [] OTHER -> s

\* RowValidator.EMAIL_PATTERN.match on the strings of the domain.
EMAIL_PATTERN(e) == e \in {"a@x.io", "A@x.io", "b@x.io"}

REQUIRED_FIELDS == <<"email", "first_name", "last_name", "company">>

normalize_email(email) == IF ~Truthy(email) THEN "" ELSE Strip(Lower(email))

Row(e, f, l, c) == [email |-> e, first_name |-> f, last_name |-> l, company |-> c]

\* Rows a decoded CSV may hold (s3_service strips every value and keeps a
\* cell of a short row as None).
RowPool ==
  { Row("a@x.io", "Ann", "Lee", "Acme"),
    Row("A@x.io", "Andy", "Lee", "Acme"),
    Row("b@x.io", "Ben", "Ng", "Acme"),
    Row("", "Jo", "Day", "Co"),
    Row("not-an-email", "Kim", "Lee", "Co"),
    Row("a@x.io", "Ann", "Lee", ""),
    Row(None, "Sam", None, None) }

\* Rows an external edit may write into a staging row.
EditPool ==
  { Row("a@x.io", "Ann", "Lee", "Acme"),
    Row("b@x.io", "Ben", "Ng", "Acme"),
    Row("a@x.io", "Ann", "Lee", "") }

\* Rows of the CSV of the second job.
SecondPool ==
  { Row("a@x.io", "Ann", "Lee", "Acme"),
    Row("A@x.io", "Andy", "Lee", "Acme"),
    Row("not-an-email", "Kim", "Lee", "Co") }

\* a valid row followed by a malformed e-mail
MixedCsv == << Row("b@x.io", "Ben", "Ng", "Acme"), Row("not-an-email", "Kim", "Lee", "Co") >>

\* two rows with the same e-mail followed by a short row (its e-mail cell is
\* None)
DupShortCsv ==
  << Row("a@x.io", "Ann", "Lee", "Acme"), Row("A@x.io", "Andy", "Lee", "Acme"),
     Row(None, "Sam", None, None) >>

SeqsUpTo(S, n) == UNION { [1..k -> S] : k \in 0..n }

\* ------------------------------------------------------------------ state
VARIABLES
  jobs,          \* jobs table: job_id -> row
  csv,           \* blob store: job_id -> decoded rows of the job's CSV object
  staging,       \* staging table: sequence indexed by staging_id
  issues,        \* issues table: sequence indexed by issue_id
  issue_items,   \* issue_items table: set of <<issue_id, staging_id>>
  contacts,      \* contacts table: set of rows
  queue,         \* messages on the queue (visible or in flight)
  pc,            \* the worker's position
  msg,           \* the message in flight
  loc,           \* the locals of the running flow
  outcome,       \* how the last delivery ended (history)
  run,           \* the flow in progress and the tables as they were at its start (history)
  nDeliv, nEdits, nFaults

vars == <<jobs, csv, staging, issues, issue_items, contacts, queue, pc, msg, loc,
          outcome, run, nDeliv, nEdits, nFaults>>

db == <<jobs, staging, issues, issue_items, contacts>>

JobMsg(j) == [kind |-> "job", job |-> j]
BadJsonMsg == [kind |-> "badjson", job |-> 0]
NoFieldMsg == [kind |-> "nofield", job |-> 0]
Msgs == {JobMsg(j) : j \in JobIds \cup {GhostJob}} \cup {BadJsonMsg, NoFieldMsg}

NoMsg == [kind |-> "none", job |-> 0]

NoLoc ==
  [ job |-> 0, rows |-> << >>, dup |-> {}, exist |-> {}, i |-> 0,
    processed_count |-> 0, issue_count |-> 0, recs |-> << >>, sid |-> 0,
    iid |-> 0, related |-> {}, ready |-> << >>, k |-> 0 ]

NoOutcome == [msg |-> NoMsg, result |-> "none", at |-> "idle"]

NoRun == [flow |-> "none", again |-> FALSE, db |-> << >>]

\* ------------------------------------------------------- pure functions
RECURSIVE SortedSeq(_)
SortedSeq(S) ==
  IF S = {} THEN << >>
  ELSE LET m == CHOOSE x \in S : \A y \in S : x <= y
       IN <<m>> \o SortedSeq(S \ {m})

Min(S) == CHOOSE x \in S : \A y \in S : x <= y

\* value = row_data.get(field, "").strip() if row_data.get(field) else ""
FieldValue(row, f) == IF Truthy(row[f]) THEN Strip(row[f]) ELSE ""

Invalid(t) == [is_valid |-> FALSE, issue_type |-> t]
Valid == [is_valid |-> TRUE, issue_type |-> "none"]

\* (variant that looks the e-mail up in existing_emails before duplicate_emails)
validate_row_ExistingFirst(row_data, duplicate_emails, existing_emails) ==
  IF \E n \in 1..Len(REQUIRED_FIELDS) : FieldValue(row_data, REQUIRED_FIELDS[n]) = ""
  THEN Invalid("MISSING_REQUIRED_FIELD")
  ELSE LET email == Strip(row_data.email)
           normalized_email == normalize_email(email)
       IN IF ~EMAIL_PATTERN(email) THEN Invalid("INVALID_EMAIL")
          ELSE IF normalized_email \in existing_emails THEN Invalid("EXISTING_EMAIL")
          ELSE IF normalized_email \in duplicate_emails THEN Invalid("DUPLICATE_EMAIL")
          ELSE Valid
validate_row(row_data, duplicate_emails, existing_emails) ==
  IF \E n \in 1..Len(REQUIRED_FIELDS) : FieldValue(row_data, REQUIRED_FIELDS[n]) = ""
  THEN Invalid("MISSING_REQUIRED_FIELD")
  ELSE LET email == Strip(row_data.email)
           normalized_email == normalize_email(email)
       IN IF ~EMAIL_PATTERN(email) THEN Invalid("INVALID_EMAIL")
          ELSE IF normalized_email \in duplicate_emails THEN Invalid("DUPLICATE_EMAIL")
          ELSE IF normalized_email \in existing_emails THEN Invalid("EXISTING_EMAIL")
          ELSE Valid

\* row.get("email", "").strip() raises AttributeError on a None cell.
identify_raises(rows) == \E i \in 1..Len(rows) : rows[i].email = None

_identify_duplicate_emails(rows) ==
  LET P == {i \in 1..Len(rows) : Strip(rows[i].email) # ""}
      N(i) == normalize_email(Strip(rows[i].email))
  IN {e \in {N(i) : i \in P} : Cardinality({i \in P : N(i) = e}) > 1}

\* {normalize_email(row.get("email", "")) for row in rows if row.get("email")}
all_emails_of(rows) ==
  {normalize_email(rows[i].email) : i \in {i \in 1..Len(rows) : Truthy(rows[i].email)}}

\* The owner column of a contacts row (Contact.user_id of the data model).
\* The repository reads and writes it as contacts_user_id; models/contact.py
\* declares no such column and the declarative Base is not among the sources.
contacts_user_id(c) == c.user

\* Contact.contact_email IN (emails) AND Contact.contacts_user_id = user_id:
\* the stored e-mail is compared as it was stored.
\* (variant without the filter on the owner)
get_existing_emails_AnyUser(cs, emails, user_id) ==
  IF emails = {} THEN {}
  ELSE {c.email : c \in {c \in cs : c.email \in emails}}
get_existing_emails(cs, emails, user_id) ==
  IF emails = {} THEN {}
  ELSE {c.email : c \in {c \in cs : c.email \in emails /\ contacts_user_id(c) = user_id}}

\* sha256 over the canonical map, taken as injective: the canonical tuple.
\* (variant that does not lowercase the e-mail)
generate_row_hash_CaseKept(job_id, row_number, row_data) ==
  << job_id, row_number, Strip(row_data.email), Strip(row_data.first_name),
     Strip(row_data.last_name), Strip(row_data.company) >>
generate_row_hash(job_id, row_number, row_data) ==
  << job_id, row_number, Strip(Lower(row_data.email)), Strip(row_data.first_name),
     Strip(row_data.last_name), Strip(row_data.company) >>

exists_by_hash(st, job_id, row_hash) ==
  \E s \in 1..Len(st) : st[s].job = job_id /\ st[s].row_hash = row_hash

\* (variant that looks for staging rows of any job)
has_staging_records_AnyJob(st, job_id) == Len(st) > 0
has_staging_records(st, job_id) == \E s \in 1..Len(st) : st[s].job = job_id

get_by_job_id(st, job_id) == SortedSeq({s \in 1..Len(st) : st[s].job = job_id})

get_ready_for_consolidation(st, job_id) ==
  SortedSeq({s \in 1..Len(st) : st[s].job = job_id /\ st[s].status = "READY"})

\* StagingRepository.create: the row inserted.
\* (variant that stores a fingerprint of the e-mail instead of the hash given)
StagingRow_HashOfEmail(job_id, row_data, row_hash, status) ==
  [ job |-> job_id, email |-> row_data.email, first_name |-> row_data.first_name,
    last_name |-> row_data.last_name, company |-> row_data.company,
    status |-> status, row_hash |-> <<job_id, normalize_email(row_data.email)>> ]
StagingRow(job_id, row_data, row_hash, status) ==
  [ job |-> job_id, email |-> row_data.email, first_name |-> row_data.first_name,
    last_name |-> row_data.last_name, company |-> row_data.company,
    status |-> status, row_hash |-> row_hash ]

\* staging.staging_email or "", ...
row_data_of(s) ==
  LET OrEmpty(v) == IF Truthy(v) THEN v ELSE ""
  IN Row(OrEmpty(s.email), OrEmpty(s.first_name), OrEmpty(s.last_name), OrEmpty(s.company))

\* issue_key = normalized_email if normalized_email else f"row_{row_number}"
\* (keys are tagged so that no e-mail of the domain reads "row_<n>").
\* (variant that keys every Issue by the row number)
initial_issue_key_RowOnly(row_data, row_number) == <<"row", ToString(row_number)>>
initial_issue_key(row_data, row_number) ==
  LET normalized_email == normalize_email(row_data.email)
  IN IF normalized_email # "" THEN <<"email", normalized_email>>
     ELSE <<"row", ToString(row_number)>>

\* issue_key = normalized_email if normalized_email else f"staging_{staging_id}"
reprocess_issue_key(row_data, staging_id) ==
  LET normalized_email == normalize_email(row_data.email)
  IN IF normalized_email # "" THEN <<"email", normalized_email>>
     ELSE <<"staging", ToString(staging_id)>>

\* the lookup of get_or_create: job, type and key
\* (variant that looks the type and key up in every job)
FindIssue_AnyJob(is, job_id, issue_type, issue_key) ==
  {n \in 1..Len(is) : is[n].type = issue_type /\ is[n].key = issue_key}
FindIssue(is, job_id, issue_type, issue_key) ==
  {n \in 1..Len(is) : is[n].job = job_id /\ is[n].type = issue_type /\ is[n].key = issue_key}

NewIssue(job_id, issue_type, issue_key) ==
  [ job |-> job_id, type |-> issue_type, key |-> issue_key, resolved |-> FALSE,
    resolved_by |-> None ]

\* IssueRepository.get_or_create: the table afterwards and the id returned.
\* (variant that inserts without looking the triple up)
get_or_create_AlwaysInsert(is, job_id, issue_type, issue_key) ==
  [issues |-> Append(is, NewIssue(job_id, issue_type, issue_key)), id |-> Len(is) + 1]
get_or_create(is, job_id, issue_type, issue_key) ==
  LET found == FindIssue(is, job_id, issue_type, issue_key)
  IN IF found # {} THEN [issues |-> is, id |-> Min(found)]
     ELSE [issues |-> Append(is, NewIssue(job_id, issue_type, issue_key)), id |-> Len(is) + 1]

link_staging_to_issue(items, issue_id, staging_id) == items \cup {<<issue_id, staging_id>>}

get_issues_for_staging(items, staging_id) == {it[1] : it \in {it \in items : it[2] = staging_id}}

LinkedStaging(items, issue_id) == {it[2] : it \in {it \in items : it[1] = issue_id}}

\* count of linked staging rows whose status is ISSUE
unresolved_count(st, items, issue_id) ==
  Cardinality({s \in LinkedStaging(items, issue_id) : st[s].status = "ISSUE"})

mark_as_resolved(is, issue_id, resolved_by) ==
  [is EXCEPT ![issue_id].resolved = TRUE, ![issue_id].resolved_by = resolved_by]

\* IssueRepository.check_and_mark_resolved_if_all_staging_resolved: the table
\* afterwards; the return value is check_returns.
check_returns(is, st, items, issue_id) ==
  LinkedStaging(items, issue_id) # {} /\ unresolved_count(st, items, issue_id) = 0

check_and_mark_resolved_if_all_staging_resolved(is, st, items, issue_id) ==
  IF check_returns(is, st, items, issue_id) THEN mark_as_resolved(is, issue_id, "system")
  ELSE is

\* ContactRepository.create_from_staging raises ValueError
create_raises_ValueError(s, user_id) ==
  ~Truthy(s.email) \/ ~Truthy(s.first_name) \/ ~Truthy(s.last_name) \/ ~Truthy(s.company)
  \/ ~Truthy(user_id)

NewContact(staging_id, s, user_id) ==
  [staging_id |-> staging_id, user |-> user_id, email |-> s.email]

update_status(st, staging_id, status) == [st EXCEPT ![staging_id].status = status]

\* JobRepository.update_status
\* (variant that does not write NEEDS_REVIEW)
job_update_status_NoReview(js, job_id, status) ==
  IF status = "NEEDS_REVIEW" THEN js ELSE [js EXCEPT ![job_id].status = status]
job_update_status(js, job_id, status) == [js EXCEPT ![job_id].status = status]

\* JobRepository.update_metadata: only the fields given are written.
\* (variant that writes total_rows only)
update_metadata_TotalOnly(js, job_id, given) ==
  [js EXCEPT ![job_id] =
     [f \in DOMAIN js[job_id] |->
        IF f \in DOMAIN given /\ f = "total_rows" THEN given[f] ELSE js[job_id][f]]]
update_metadata(js, job_id, given) ==
  [js EXCEPT ![job_id] =
     [f \in DOMAIN js[job_id] |-> IF f \in DOMAIN given THEN given[f] ELSE js[job_id][f]]]

\* process_job's precondition check: the job is missing or already COMPLETED.
\* (variant that tests only for the missing job)
precondition_skips_OnlyMissing(js, job_id) == job_id \notin DOMAIN js
precondition_skips(js, job_id) ==
  IF job_id \notin DOMAIN js THEN TRUE ELSE js[job_id].status = "COMPLETED"

\* _process_message: the body parses as JSON but job_id or s3_key is falsy.
missing_field(m) == m.kind = "nofield"

\* SQSConsumer._delete_message after process_job returned.
\* (variant that leaves the message on the queue)
delete_on_return_Keeps(q, m) == q
delete_on_return(q, m) == q \ {m}

\* _process_message re-raises what process_job raised: nothing is deleted.
\* (variant that deletes the message all the same)
keep_on_raise_Deletes(q, m) == q \ {m}
keep_on_raise(q, m) == q

\* except json.JSONDecodeError: the message is deleted.
\* (variant that leaves the message on the queue)
delete_malformed_Keeps(q, m) == q
delete_malformed(q, m) == q \ {m}

\* except Exception (the ValueError of a missing field included): re-raised.
keep_on_invalid(q, m) == q

\* the except-handler of the three flows: job to FAILED, then raise.
\* (variant that re-raises without writing FAILED)
fail_job_NoStatus(js, job_id) == js
fail_job(js, job_id) == job_update_status(js, job_id, "FAILED")

\* ------------------------------------------------------------------- Init
InitWith(csvs1, csvs2, users2, q) ==
  /\ \E u \in users2 :
       jobs = [j \in JobIds |->
                 [ status |-> "PENDING", user |-> IF j = 1 THEN "u1" ELSE u,
                   total_rows |-> 0, processed_rows |-> 0, issue_count |-> 0 ]]
  /\ \E c1 \in csvs1, c2 \in csvs2 :
       csv = [j \in JobIds |-> IF j = 1 THEN c1 ELSE c2]
  /\ staging = << >>
  /\ issues = << >>
  /\ issue_items = {}
  /\ contacts = {}
  /\ queue = q
  /\ pc = "idle"
  /\ msg = NoMsg
  /\ loc = NoLoc
  /\ outcome = NoOutcome
  /\ run = NoRun
  /\ nDeliv = 0
  /\ nEdits = 0
  /\ nFaults = 0

\* every CSV of at most MaxRows rows, or DupShortCsv, for job 1, a one-row
\* CSV for job 2;
\* the message of job 1 on the queue
Init ==
  InitWith(SeqsUpTo(RowPool, MaxRows) \cup {DupShortCsv},
           {<<Row("a@x.io", "Ann", "Lee", "Acme")>>}, {"u2"},
           {JobMsg(1)})

\* both jobs' messages, a stale message, a malformed and an incomplete one on
\* the queue; job 1 has the empty CSV, a CSV of one valid row or MixedCsv
InitQueue ==
  InitWith({<< >>, <<Row("a@x.io", "Ann", "Lee", "Acme")>>, MixedCsv},
           [1..1 -> SecondPool], Users, Msgs)

\* ------------------------------------------------- how a delivery ends
\* process_job returned: the consumer deletes the message.
Returned ==
  /\ queue' = delete_on_return(queue, msg)
  /\ outcome' = [msg |-> msg, result |-> "returned", at |-> pc]
  /\ pc' = "idle" /\ msg' = NoMsg /\ loc' = NoLoc /\ run' = NoRun

\* process_job raised: the consumer logs and re-raises.
Raised ==
  /\ queue' = keep_on_raise(queue, msg)
  /\ outcome' = [msg |-> msg, result |-> "raised", at |-> pc]
  /\ pc' = "idle" /\ msg' = NoMsg /\ loc' = NoLoc /\ run' = NoRun

\* the flows' "except Exception": job to FAILED, re-raise.
HandleJobException ==
  /\ jobs' = fail_job(jobs, loc.job)
  /\ Raised

Receivable(m) == pc = "idle" /\ m \in queue /\ nDeliv < MaxDeliveries

\* ------------------------------------------------------------- consumer
DeliverMalformed(m) ==
  /\ Receivable(m) /\ m.kind = "badjson"
  /\ queue' = delete_malformed(queue, m)
  /\ outcome' = [msg |-> m, result |-> "poison_deleted", at |-> "idle"]
  /\ nDeliv' = nDeliv + 1
  /\ UNCHANGED <<jobs, csv, staging, issues, issue_items, contacts, pc, msg, loc,
                 nEdits, nFaults, run>>

DeliverMissingField(m) ==
  /\ Receivable(m) /\ m.kind # "badjson" /\ missing_field(m)
  /\ queue' = keep_on_invalid(queue, m)
  /\ outcome' = [msg |-> m, result |-> "raised", at |-> "idle"]
  /\ nDeliv' = nDeliv + 1
  /\ UNCHANGED <<jobs, csv, staging, issues, issue_items, contacts, pc, msg, loc,
                 nEdits, nFaults, run>>

DeliverStale(m) ==
  /\ Receivable(m) /\ m.kind = "job"
  /\ precondition_skips(jobs, m.job)
  /\ queue' = delete_on_return(queue, m)
  /\ outcome' = [msg |-> m, result |-> "returned", at |-> "idle"]
  /\ nDeliv' = nDeliv + 1
  /\ UNCHANGED <<jobs, csv, staging, issues, issue_items, contacts, pc, msg, loc,
                 nEdits, nFaults, run>>

\* ---------------------------------------------------------- initial flow
DeliverInitial(m) ==
  /\ Receivable(m) /\ m.kind = "job"
  /\ ~precondition_skips(jobs, m.job)
  /\ ~has_staging_records(staging, m.job)
  /\ jobs' = job_update_status(jobs, m.job, "PROCESSING")
  /\ pc' = "read_csv" /\ msg' = m /\ loc' = [NoLoc EXCEPT !.job = m.job]
  /\ run' = [flow |-> "initial", again |-> jobs[m.job].status # "PENDING", db |-> db]
  /\ nDeliv' = nDeliv + 1 /\ outcome' = NoOutcome
  /\ UNCHANGED <<csv, staging, issues, issue_items, contacts, queue,
                 nEdits, nFaults>>

\* the CSV is empty, or _identify_duplicate_emails raises on a None e-mail
ReadCsvFails ==
  /\ pc = "read_csv"
  /\ csv[loc.job] = << >> \/ identify_raises(csv[loc.job])
  /\ HandleJobException
  /\ UNCHANGED <<csv, staging, issues, issue_items, contacts, nDeliv, nEdits, nFaults>>

ReadCsv ==
  /\ pc = "read_csv"
  /\ csv[loc.job] # << >> /\ ~identify_raises(csv[loc.job])
  /\ LET rows == csv[loc.job]
     IN loc' = [loc EXCEPT !.rows = rows,
                           !.dup = _identify_duplicate_emails(rows),
                           !.exist = get_existing_emails(contacts, all_emails_of(rows),
                                                         jobs[loc.job].user),
                           !.i = 1]
  /\ pc' = "row"
  /\ UNCHANGED <<jobs, csv, staging, issues, issue_items, contacts, queue, msg,
                 outcome, nDeliv, nEdits, nFaults, run>>

\* the row's hash is already staged: skipped; else a staging row is created,
\* provisionally ISSUE
InitStageRow ==
  /\ pc = "row" /\ loc.i <= Len(loc.rows)
  /\ LET h == generate_row_hash(loc.job, loc.i, loc.rows[loc.i])
     IN IF exists_by_hash(staging, loc.job, h)
        THEN /\ loc' = [loc EXCEPT !.i = loc.i + 1]
             /\ UNCHANGED <<staging, pc>>
        ELSE /\ staging' = Append(staging, StagingRow(loc.job, loc.rows[loc.i], h, "ISSUE"))
             /\ loc' = [loc EXCEPT !.sid = Len(staging) + 1]
             /\ pc' = "row_validate"
  /\ UNCHANGED <<jobs, csv, issues, issue_items, contacts, queue, msg, outcome,
                 nDeliv, nEdits, nFaults, run>>

InitRowReady ==
  /\ pc = "row_validate"
  /\ validate_row(loc.rows[loc.i], loc.dup, loc.exist).is_valid
  /\ staging' = update_status(staging, loc.sid, "READY")
  /\ loc' = [loc EXCEPT !.processed_count = loc.processed_count + 1, !.i = loc.i + 1]
  /\ pc' = "row"
  /\ UNCHANGED <<jobs, csv, issues, issue_items, contacts, queue, msg, outcome,
                 nDeliv, nEdits, nFaults, run>>

InitRowIssue ==
  /\ pc = "row_validate"
  /\ LET v == validate_row(loc.rows[loc.i], loc.dup, loc.exist)
         r == get_or_create(issues, loc.job, v.issue_type,
                            initial_issue_key(loc.rows[loc.i], loc.i))
     IN /\ ~v.is_valid
        /\ issues' = r.issues
        /\ loc' = [loc EXCEPT !.iid = r.id]
  /\ pc' = "row_link"
  /\ UNCHANGED <<jobs, csv, staging, issue_items, contacts, queue, msg, outcome,
                 nDeliv, nEdits, nFaults, run>>

InitRowLink ==
  /\ pc = "row_link"
  /\ issue_items' = link_staging_to_issue(issue_items, loc.iid, loc.sid)
  /\ loc' = [loc EXCEPT !.issue_count = loc.issue_count + 1,
                        !.processed_count = loc.processed_count + 1,
                        !.i = loc.i + 1]
  /\ pc' = "row"
  /\ UNCHANGED <<jobs, csv, staging, issues, contacts, queue, msg, outcome,
                 nDeliv, nEdits, nFaults, run>>

InitMetadata ==
  /\ pc = "row" /\ loc.i > Len(loc.rows)
  /\ jobs' = update_metadata(jobs, loc.job,
                [ total_rows |-> Len(loc.rows), processed_rows |-> loc.processed_count,
                  issue_count |-> loc.issue_count ])
  /\ pc' = "decide"
  /\ UNCHANGED <<csv, staging, issues, issue_items, contacts, queue, msg, loc, outcome,
                 nDeliv, nEdits, nFaults, run>>

InitNeedsReview ==
  /\ pc = "decide" /\ loc.issue_count > 0
  /\ jobs' = job_update_status(jobs, loc.job, "NEEDS_REVIEW")
  /\ Returned
  /\ UNCHANGED <<csv, staging, issues, issue_items, contacts, nDeliv, nEdits, nFaults>>

\* -------------------------------------------------------- reprocess flow
DeliverReprocess(m) ==
  /\ Receivable(m) /\ m.kind = "job"
  /\ ~precondition_skips(jobs, m.job)
  /\ has_staging_records(staging, m.job)
  /\ jobs' = job_update_status(jobs, m.job, "PROCESSING")
  /\ pc' = "re_load" /\ msg' = m /\ loc' = [NoLoc EXCEPT !.job = m.job]
  /\ run' = [flow |-> "reprocess", again |-> jobs[m.job].status # "PENDING", db |-> db]
  /\ nDeliv' = nDeliv + 1 /\ outcome' = NoOutcome
  /\ UNCHANGED <<csv, staging, issues, issue_items, contacts, queue,
                 nEdits, nFaults>>

\* normalized e-mails of the non-DISCARD rows that have a truthy e-mail
\* (variant that keeps the DISCARD rows)
non_discard_emails_AllRows(st, recs) ==
  LET nd == {n \in 1..Len(recs) : Truthy(st[recs[n]].email)}
  IN [n \in nd |-> normalize_email(st[recs[n]].email)]
non_discard_emails(st, recs) ==
  LET nd == {n \in 1..Len(recs) : st[recs[n]].status # "DISCARD" /\ Truthy(st[recs[n]].email)}
  IN [n \in nd |-> normalize_email(st[recs[n]].email)]

reprocess_duplicate_emails(st, recs) ==
  LET em == non_discard_emails(st, recs)
  IN {e \in {em[n] : n \in DOMAIN em} : Cardinality({n \in DOMAIN em : em[n] = e}) > 1}

ReLoad ==
  /\ pc = "re_load"
  /\ LET recs == get_by_job_id(staging, loc.job)
         em == non_discard_emails(staging, recs)
     IN loc' = [loc EXCEPT !.recs = recs,
                           !.exist = get_existing_emails(contacts, {em[n] : n \in DOMAIN em},
                                                         jobs[loc.job].user),
                           !.dup = reprocess_duplicate_emails(staging, recs),
                           !.i = 1]
  /\ pc' = "re_row"
  /\ UNCHANGED <<jobs, csv, staging, issues, issue_items, contacts, queue, msg,
                 outcome, nDeliv, nEdits, nFaults, run>>

ReSkipDiscard ==
  /\ pc = "re_row" /\ loc.i <= Len(loc.recs)
  /\ staging[loc.recs[loc.i]].status = "DISCARD"
  /\ loc' = [loc EXCEPT !.i = loc.i + 1]
  /\ UNCHANGED <<jobs, csv, staging, issues, issue_items, contacts, queue, pc, msg,
                 outcome, nDeliv, nEdits, nFaults, run>>

ReValidation == validate_row(row_data_of(staging[loc.recs[loc.i]]), loc.dup, loc.exist)

\* the row counted as processed, on to the next staging record
ReRowDone(l) == [l EXCEPT !.processed_count = l.processed_count + 1, !.i = l.i + 1,
                          !.related = {}, !.iid = 0]

ReRowReady ==
  /\ pc = "re_row" /\ loc.i <= Len(loc.recs)
  /\ staging[loc.recs[loc.i]].status # "DISCARD"
  /\ ReValidation.is_valid
  /\ staging' = update_status(staging, loc.recs[loc.i], "READY")
  /\ LET related == {n \in get_issues_for_staging(issue_items, loc.recs[loc.i]) :
                       ~issues[n].resolved}
     IN IF related = {}
        THEN loc' = ReRowDone(loc) /\ pc' = "re_row"
        ELSE loc' = [loc EXCEPT !.related = related] /\ pc' = "re_resolve"
  /\ UNCHANGED <<jobs, csv, issues, issue_items, contacts, queue, msg, outcome,
                 nDeliv, nEdits, nFaults, run>>

ReResolve ==
  /\ pc = "re_resolve"
  /\ LET n == Min(loc.related)
     IN /\ issues' = check_and_mark_resolved_if_all_staging_resolved(
                        issues, staging, issue_items, n)
        /\ IF loc.related = {n}
           THEN loc' = ReRowDone(loc) /\ pc' = "re_row"
           ELSE loc' = [loc EXCEPT !.related = loc.related \ {n}] /\ pc' = "re_resolve"
  /\ UNCHANGED <<jobs, csv, staging, issue_items, contacts, queue, msg, outcome,
                 nDeliv, nEdits, nFaults, run>>

\* a resolved Issue is re-opened only if a row already linked to it is ISSUE
\* (variant that re-opens every resolved Issue)
unresolve_if_needed_Always(is, st, items, issue_id) ==
  [is EXCEPT ![issue_id].resolved = FALSE, ![issue_id].resolved_by = None]
unresolve_if_needed(is, st, items, issue_id) ==
  IF is[issue_id].resolved /\ unresolved_count(st, items, issue_id) > 0
  THEN [is EXCEPT ![issue_id].resolved = FALSE, ![issue_id].resolved_by = None]
  ELSE is

ReRowIssue ==
  /\ pc = "re_row" /\ loc.i <= Len(loc.recs)
  /\ staging[loc.recs[loc.i]].status # "DISCARD"
  /\ ~ReValidation.is_valid
  /\ LET r == get_or_create(issues, loc.job, ReValidation.issue_type,
                 reprocess_issue_key(row_data_of(staging[loc.recs[loc.i]]), loc.recs[loc.i]))
     IN /\ issues' = unresolve_if_needed(r.issues, staging, issue_items, r.id)
        /\ loc' = [loc EXCEPT !.iid = r.id]
  /\ pc' = "re_link"
  /\ UNCHANGED <<jobs, csv, staging, issue_items, contacts, queue, msg, outcome,
                 nDeliv, nEdits, nFaults, run>>

ReRowLink ==
  /\ pc = "re_link"
  /\ issue_items' = link_staging_to_issue(issue_items, loc.iid, loc.recs[loc.i])
  /\ pc' = "re_status"
  /\ UNCHANGED <<jobs, csv, staging, issues, contacts, queue, msg, loc, outcome,
                 nDeliv, nEdits, nFaults, run>>

ReRowStatus ==
  /\ pc = "re_status"
  /\ staging' = update_status(staging, loc.recs[loc.i], "ISSUE")
  /\ loc' = [ReRowDone(loc) EXCEPT !.issue_count = loc.issue_count + 1]
  /\ pc' = "re_row"
  /\ UNCHANGED <<jobs, csv, issues, issue_items, contacts, queue, msg, outcome,
                 nDeliv, nEdits, nFaults, run>>

\* the fields the reprocess flow hands to update_metadata
\* (variant that hands total_rows over as well)
reprocess_metadata_WithTotal(l) ==
  [total_rows |-> Len(l.recs), processed_rows |-> l.processed_count,
   issue_count |-> l.issue_count]
reprocess_metadata(l) ==
  [processed_rows |-> l.processed_count, issue_count |-> l.issue_count]

ReMetadata ==
  /\ pc = "re_row" /\ loc.i > Len(loc.recs)
  /\ jobs' = update_metadata(jobs, loc.job, reprocess_metadata(loc))
  /\ pc' = "re_decide"
  /\ UNCHANGED <<csv, staging, issues, issue_items, contacts, queue, msg, loc, outcome,
                 nDeliv, nEdits, nFaults, run>>

ReNeedsReview ==
  /\ pc = "re_decide" /\ loc.issue_count > 0
  /\ jobs' = job_update_status(jobs, loc.job, "NEEDS_REVIEW")
  /\ Returned
  /\ UNCHANGED <<csv, staging, issues, issue_items, contacts, nDeliv, nEdits, nFaults>>

\* --------------------------------------------------------- consolidation
Consolidating == pc \in {"decide", "re_decide"} /\ loc.issue_count = 0

ConsEmpty ==
  /\ Consolidating
  /\ get_ready_for_consolidation(staging, loc.job) = << >>
  /\ jobs' = job_update_status(jobs, loc.job, "COMPLETED")
  /\ Returned
  /\ UNCHANGED <<csv, staging, issues, issue_items, contacts, nDeliv, nEdits, nFaults>>

ConsBegin ==
  /\ Consolidating
  /\ get_ready_for_consolidation(staging, loc.job) # << >>
  /\ loc' = [loc EXCEPT !.ready = get_ready_for_consolidation(staging, loc.job), !.k = 1]
  /\ pc' = "cons_create"
  /\ UNCHANGED <<jobs, csv, staging, issues, issue_items, contacts, queue, msg,
                 outcome, nDeliv, nEdits, nFaults, run>>

\* batch_create_from_staging: next record, or on to the status loop
ConsNext(l) == IF l.k < Len(l.ready) THEN [l EXCEPT !.k = l.k + 1] ELSE [l EXCEPT !.k = 1]
ConsNextPc(l, here, there) == IF l.k < Len(l.ready) THEN here ELSE there

\* create_from_staging raised ValueError: logged, the record is skipped
ConsSkip ==
  /\ pc = "cons_create"
  /\ create_raises_ValueError(staging[loc.ready[loc.k]], jobs[loc.job].user)
  /\ loc' = ConsNext(loc)
  /\ pc' = ConsNextPc(loc, "cons_create", "cons_status")
  /\ UNCHANGED <<jobs, csv, staging, issues, issue_items, contacts, queue, msg,
                 outcome, nDeliv, nEdits, nFaults, run>>

\* staging_id = Column(..., unique=True): the INSERT of a contact conflicts
\* (variant without the unique constraint)
staging_id_conflicts_Never(cs, staging_id) == FALSE
staging_id_conflicts(cs, staging_id) == \E c \in cs : c.staging_id = staging_id

\* contacts.staging_id is unique: a second contact for the row is an
\* IntegrityError, which batch_create_from_staging does not catch
ConsDuplicate ==
  /\ pc = "cons_create"
  /\ ~create_raises_ValueError(staging[loc.ready[loc.k]], jobs[loc.job].user)
  /\ staging_id_conflicts(contacts, loc.ready[loc.k])
  /\ HandleJobException
  /\ UNCHANGED <<csv, staging, issues, issue_items, contacts, nDeliv, nEdits, nFaults>>

ConsCreate ==
  /\ pc = "cons_create"
  /\ ~create_raises_ValueError(staging[loc.ready[loc.k]], jobs[loc.job].user)
  /\ ~staging_id_conflicts(contacts, loc.ready[loc.k])
  /\ contacts' = contacts \cup
        {NewContact(loc.ready[loc.k], staging[loc.ready[loc.k]], jobs[loc.job].user)}
  /\ loc' = ConsNext(loc)
  /\ pc' = ConsNextPc(loc, "cons_create", "cons_status")
  /\ UNCHANGED <<jobs, csv, staging, issues, issue_items, queue, msg, outcome,
                 nDeliv, nEdits, nFaults, run>>

ConsStatus ==
  /\ pc = "cons_status"
  /\ staging' = update_status(staging, loc.ready[loc.k], "SUCCESS")
  /\ loc' = ConsNext(loc)
  /\ pc' = ConsNextPc(loc, "cons_status", "cons_complete")
  /\ UNCHANGED <<jobs, csv, issues, issue_items, contacts, queue, msg, outcome,
                 nDeliv, nEdits, nFaults, run>>

ConsComplete ==
  /\ pc = "cons_complete"
  /\ jobs' = job_update_status(jobs, loc.job, "COMPLETED")
  /\ Returned
  /\ UNCHANGED <<csv, staging, issues, issue_items, contacts, nDeliv, nEdits, nFaults>>

\* ------------------------------------------------------------------ faults
RowPcs == {"row", "row_validate", "row_link", "re_row", "re_resolve", "re_link", "re_status"}

InRow ==
  \/ pc = "row" /\ loc.i <= Len(loc.rows)
  \/ pc \in {"row_validate", "row_link"}
  \/ pc = "re_row" /\ loc.i <= Len(loc.recs) /\ staging[loc.recs[loc.i]].status # "DISCARD"
  \/ pc \in {"re_resolve", "re_link", "re_status"}

\* the per-row "except Exception": log and continue with the next row
\* (variant that counts the row as processed)
skip_row_Counted(l) ==
  [l EXCEPT !.i = l.i + 1, !.related = {}, !.iid = 0, !.processed_count = l.processed_count + 1]
skip_row(l) == [l EXCEPT !.i = l.i + 1, !.related = {}, !.iid = 0]

\* an exception inside the per-row try: logged, the row is skipped
RowFault ==
  /\ InRow /\ nFaults < MaxFaults
  /\ nFaults' = nFaults + 1
  /\ loc' = skip_row(loc)
  /\ pc' = IF pc \in {"row", "row_validate", "row_link"} THEN "row" ELSE "re_row"
  /\ UNCHANGED <<jobs, csv, staging, issues, issue_items, contacts, queue, msg,
                 outcome, nDeliv, nEdits, run>>

\* an exception outside the per-row try (blob fetch, a database error)
JobFault ==
  /\ pc # "idle" /\ ~InRow /\ nFaults < MaxFaults
  /\ nFaults' = nFaults + 1
  /\ HandleJobException
  /\ UNCHANGED <<csv, staging, issues, issue_items, contacts, nDeliv, nEdits>>

\* KeyboardInterrupt: not an Exception, no handler runs, the loop ends
Interrupt ==
  /\ pc # "idle" /\ nFaults < MaxFaults
  /\ nFaults' = nFaults + 1
  /\ outcome' = [msg |-> msg, result |-> "interrupted", at |-> pc]
  /\ pc' = "idle" /\ msg' = NoMsg /\ loc' = NoLoc /\ run' = NoRun
  /\ UNCHANGED <<jobs, csv, staging, issues, issue_items, contacts, queue, nDeliv, nEdits>>

\* ------------------------------------------------------------ environment
Editable(s) ==
  /\ pc = "idle" /\ nEdits < MaxEdits
  /\ jobs[staging[s].job].status = "NEEDS_REVIEW"
  /\ staging[s].status \in {"ISSUE", "READY"}

ExtDiscard(s) ==
  /\ Editable(s)
  /\ staging' = [staging EXCEPT ![s].status = "DISCARD"]
  /\ nEdits' = nEdits + 1
  /\ UNCHANGED <<jobs, csv, issues, issue_items, contacts, queue, pc, msg, loc,
                 outcome, nDeliv, nFaults, run>>

ExtEdit(s, r) ==
  /\ Editable(s)
  /\ row_data_of(staging[s]) # r
  /\ staging' = [staging EXCEPT ![s].email = r.email, ![s].first_name = r.first_name,
                                ![s].last_name = r.last_name, ![s].company = r.company]
  /\ nEdits' = nEdits + 1
  /\ UNCHANGED <<jobs, csv, issues, issue_items, contacts, queue, pc, msg, loc,
                 outcome, nDeliv, nFaults, run>>

\* the producer asks for a reprocess: a new message for the job
ExtSend(j) ==
  /\ pc = "idle" /\ nDeliv < MaxDeliveries
  /\ jobs[j].status \in {"NEEDS_REVIEW", "COMPLETED"}
  /\ JobMsg(j) \notin queue
  /\ queue' = queue \cup {JobMsg(j)}
  /\ UNCHANGED <<jobs, csv, staging, issues, issue_items, contacts, pc, msg, loc,
                 outcome, nDeliv, nEdits, nFaults, run>>

\* ------------------------------------------------------------------- Next
FlowStep ==
  \/ \E m \in Msgs : DeliverStale(m)
  \/ \E m \in Msgs : DeliverInitial(m)
  \/ \E m \in Msgs : DeliverReprocess(m)
  \/ ReadCsvFails
  \/ ReadCsv
  \/ InitStageRow
  \/ InitRowReady
  \/ InitRowIssue
  \/ InitRowLink
  \/ InitMetadata
  \/ InitNeedsReview
  \/ ReLoad
  \/ ReSkipDiscard
  \/ ReRowReady
  \/ ReResolve
  \/ ReRowIssue
  \/ ReRowLink
  \/ ReRowStatus
  \/ ReMetadata
  \/ ReNeedsReview
  \/ ConsEmpty
  \/ ConsBegin
  \/ ConsSkip
  \/ ConsDuplicate
  \/ ConsCreate
  \/ ConsStatus
  \/ ConsComplete
  \/ RowFault
  \/ JobFault
  \/ Interrupt

Next ==
  \/ FlowStep
  \/ \E s \in 1..Len(staging) : ExtDiscard(s)
  \/ \E s \in 1..Len(staging), r \in EditPool : ExtEdit(s, r)
  \/ \E j \in JobIds : ExtSend(j)

Spec == Init /\ [][Next]_vars

NextQueue ==
  \/ Next
  \/ \E m \in Msgs : DeliverMalformed(m)
  \/ \E m \in Msgs : DeliverMissingField(m)

SpecQueue == InitQueue /\ [][NextQueue]_vars

\* ====================================================================
\* Two workers in IssueRepository.get_or_create
\* ====================================================================
\* Two consumer processes, each with a database session of its own, call
\* get_or_create. The call is a SELECT ... .first() followed, when nothing was
\* found, by an INSERT and a commit; the issues table has no unique constraint
\* on (issues_job_id, issue_type, issue_key), so an INSERT never conflicts.
\* Here pc and loc are per worker; the other tables stay as they are.
Workers == {"w1", "w2"}

UpsertTypes == {"DUPLICATE_EMAIL", "EXISTING_EMAIL"}
UpsertKeys == {<<"email", "a@x.io">>, <<"email", "b@x.io">>}
NoArgs == [job |-> 0, type |-> "none", key |-> << >>]
UpsertLoc == [args |-> NoArgs, id |-> 0, calls |-> 0]

InitUpsert ==
  /\ \E u \in {"u2"} :
       jobs = [j \in JobIds |->
                 [ status |-> "PROCESSING", user |-> IF j = 1 THEN "u1" ELSE u,
                   total_rows |-> 0, processed_rows |-> 0, issue_count |-> 0 ]]
  /\ csv = [j \in JobIds |-> << >>]
  /\ staging = << >>
  /\ issues \in {<< >>, <<NewIssue(1, "DUPLICATE_EMAIL", <<"email", "a@x.io">>)>>}
  /\ issue_items = {}
  /\ contacts = {}
  /\ queue = {}
  /\ pc = [w \in Workers |-> "call"]
  /\ msg = NoMsg
  /\ loc = [w \in Workers |-> UpsertLoc]
  /\ outcome = NoOutcome
  /\ run = NoRun
  /\ nDeliv = 0
  /\ nEdits = 0
  /\ nFaults = 0

UpsertFrame ==
  UNCHANGED <<jobs, csv, staging, issue_items, contacts, queue, msg, outcome, run,
              nDeliv, nEdits, nFaults>>

\* a worker enters get_or_create(job_id, issue_type, issue_key)
UpsertCall(w, j, ty, k) ==
  /\ pc[w] = "call" /\ loc[w].calls < MaxCalls
  /\ loc' = [loc EXCEPT ![w].args = [job |-> j, type |-> ty, key |-> k], ![w].id = 0]
  /\ pc' = [pc EXCEPT ![w] = "select"]
  /\ UNCHANGED issues
  /\ UpsertFrame

\* db.query(Issue).filter(...).first(); `if issue: return issue`
UpsertSelect(w) ==
  /\ pc[w] = "select"
  /\ LET found == FindIssue(issues, loc[w].args.job, loc[w].args.type, loc[w].args.key)
     IN IF found # {}
        THEN /\ loc' = [loc EXCEPT ![w].id = Min(found), ![w].calls = loc[w].calls + 1]
             /\ pc' = [pc EXCEPT ![w] = "call"]
        ELSE /\ loc' = loc
             /\ pc' = [pc EXCEPT ![w] = "insert"]
  /\ UNCHANGED issues
  /\ UpsertFrame

\* db.add(issue); db.commit(); db.refresh(issue); return issue
UpsertInsert(w) ==
  /\ pc[w] = "insert"
  /\ issues' = Append(issues, NewIssue(loc[w].args.job, loc[w].args.type, loc[w].args.key))
  /\ loc' = [loc EXCEPT ![w].id = Len(issues) + 1, ![w].calls = loc[w].calls + 1]
  /\ pc' = [pc EXCEPT ![w] = "call"]
  /\ UpsertFrame

NextUpsert ==
  \/ \E w \in Workers, j \in JobIds, ty \in UpsertTypes, k \in UpsertKeys :
        UpsertCall(w, j, ty, k)
  \/ \E w \in Workers : UpsertSelect(w)
  \/ \E w \in Workers : UpsertInsert(w)

SpecUpsert == InitUpsert /\ [][NextUpsert]_vars

\* ====================================================================
\* Single calls of RowValidator.validate_row, StagingRepository.
\* generate_row_hash and IssueRepository.
\* check_and_mark_resolved_if_all_staging_resolved
\* ====================================================================
\* The database holds one Issue of job 1 and two staging rows, each row in
\* any status and linked to the Issue or not; a call takes its arguments from
\* the sets below, loc keeps the arguments and outcome the value returned.
CallRows ==
  RowPool \cup { Row(" A@x.io ", "Ann", "Lee", "Acme"), Row("a@x.io", " ", "Lee", "Acme"),
                 Row(" ", "Jo", "Day", "Co"), Row("a@x.io", "Ann", "Lee", " ") }

CallEmails == {"a@x.io", "b@x.io"}

StagingStatus == {"ISSUE", "READY", "SUCCESS", "DISCARD"}

InitCalls ==
  /\ jobs = [j \in JobIds |->
               [ status |-> "PROCESSING", user |-> IF j = 1 THEN "u1" ELSE "u2",
                 total_rows |-> 2, processed_rows |-> 0, issue_count |-> 0 ]]
  /\ csv = [j \in JobIds |-> << >>]
  /\ \E s1, s2 \in StagingStatus :
       staging = << StagingRow(1, Row("a@x.io", "Ann", "Lee", "Acme"),
                               generate_row_hash(1, 1, Row("a@x.io", "Ann", "Lee", "Acme")), s1),
                    StagingRow(1, Row("A@x.io", "Andy", "Lee", "Acme"),
                               generate_row_hash(1, 2, Row("A@x.io", "Andy", "Lee", "Acme")), s2) >>
  /\ \E b \in BOOLEAN, by \in {"system", "user"} :
       issues = << [NewIssue(1, "DUPLICATE_EMAIL", <<"email", "a@x.io">>)
                     EXCEPT !.resolved = b, !.resolved_by = IF b THEN by ELSE None] >>
  /\ issue_items \in SUBSET {<<1, 1>>, <<1, 2>>}
  /\ contacts = {}
  /\ queue = {}
  /\ pc = "call"
  /\ msg = NoMsg
  /\ loc = [fn |-> "none"]
  /\ outcome = NoOutcome
  /\ run = NoRun
  /\ nDeliv = 0
  /\ nEdits = 0
  /\ nFaults = 0

CallFrame ==
  UNCHANGED <<jobs, csv, staging, issue_items, contacts, queue, msg, run,
              nDeliv, nEdits, nFaults>>

\* RowValidator.validate_row(row_data, duplicate_emails, existing_emails)
CallValidateRow(row_data, duplicate_emails, existing_emails) ==
  /\ pc = "call"
  /\ loc' = [fn |-> "validate_row", row_data |-> row_data,
             duplicate_emails |-> duplicate_emails, existing_emails |-> existing_emails]
  /\ outcome' = [msg |-> NoMsg, at |-> "validate_row",
                 result |-> validate_row(row_data, duplicate_emails, existing_emails)]
  /\ pc' = "called"
  /\ UNCHANGED issues
  /\ CallFrame

\* StagingRepository.generate_row_hash, called for two rows
CallRowHash(j1, n1, r1, j2, n2, r2) ==
  /\ pc = "call"
  /\ loc' = [fn |-> "generate_row_hash", a |-> <<j1, n1, r1>>, b |-> <<j2, n2, r2>>]
  /\ outcome' = [msg |-> NoMsg, at |-> "generate_row_hash",
                 result |-> <<generate_row_hash(j1, n1, r1), generate_row_hash(j2, n2, r2)>>]
  /\ pc' = "called"
  /\ UNCHANGED issues
  /\ CallFrame

\* IssueRepository.check_and_mark_resolved_if_all_staging_resolved(db, issue_id)
CallCheckAndMark(issue_id) ==
  /\ pc = "call"
  /\ loc' = [fn |-> "check_and_mark_resolved_if_all_staging_resolved",
             issue_id |-> issue_id, before |-> issues[issue_id]]
  /\ issues' = check_and_mark_resolved_if_all_staging_resolved(issues, staging, issue_items,
                                                               issue_id)
  /\ outcome' = [msg |-> NoMsg, at |-> "check_and_mark_resolved_if_all_staging_resolved",
                 result |-> check_returns(issues, staging, issue_items, issue_id)]
  /\ pc' = "called"
  /\ CallFrame

NextCalls ==
  \/ pc = "call" /\ \E r \in CallRows, d, e \in SUBSET CallEmails : CallValidateRow(r, d, e)
  \/ pc = "call" /\ \E j1, j2 \in JobIds, n1, n2 \in 1..MaxRows, r1, r2 \in CallRows :
                       CallRowHash(j1, n1, r1, j2, n2, r2)
  \/ pc = "call" /\ \E n \in 1..Len(issues) : CallCheckAndMark(n)

SpecCalls == InitCalls /\ [][NextCalls]_vars

\* ====================================================================
\* S3Service.read_csv_file, the delimiter probe: the decoded text is a header
\* line and one data line, each a sequence of characters; loc keeps the text
\* and the delimiter chosen.
\* ====================================================================
MaxHeader == 5
MaxLine == 2
Tab == "\t"
delimiters == <<";", ",", Tab>>
Chars == {"a", ";", ",", Tab}

Lines(n) == UNION {[1..k -> Chars] : k \in 0..n}

\* csv.reader on one line without quotes: the fields between the delimiters
RECURSIVE split(_, _)
split(s, d) ==
  IF \A i \in 1..Len(s) : s[i] # d THEN <<s>>
  ELSE LET i == Min({k \in 1..Len(s) : s[k] = d})
       IN <<SubSeq(s, 1, i - 1)>> \o split(SubSeq(s, i + 1, Len(s)), d)

\* str.strip() on a sequence of characters (the tab is the only white space)
RECURSIVE strip(_)
strip(s) ==
  IF s = << >> THEN s
  ELSE IF Head(s) = Tab THEN strip(Tail(s))
  ELSE IF s[Len(s)] = Tab THEN strip(SubSeq(s, 1, Len(s) - 1))
  ELSE s

contains(s, c) == \E i \in 1..Len(s) : s[i] = c

\* csv.DictReader(header, line) followed by the cleaning loop: the keys of the
\* cleaned first row, and the keys whose cleaned value is not empty.  A raw key
\* occurring twice keeps the value of its last column (None past the end of
\* the line); two raw keys with the same stripped form keep the value of the
\* one inserted last.
fieldnames(header, d) == IF header = << >> THEN << >> ELSE split(header, d)

cleaned_keys(header, d) ==
  {strip(k) : k \in {fieldnames(header, d)[i] : i \in 1..Len(fieldnames(header, d))}} \ {<< >>}

cleaned_nonempty(header, line, d) ==
  LET fn == fieldnames(header, d)
      row == split(line, d)
      first(k) == Min({i \in 1..Len(fn) : fn[i] = k})
      last(k) == CHOOSE i \in 1..Len(fn) : fn[i] = k /\ \A j \in 1..Len(fn) : fn[j] = k => j <= i
      winner(K) == CHOOSE k \in {fn[i] : i \in 1..Len(fn)} :
                     /\ strip(k) = K
                     /\ \A k2 \in {fn[i] : i \in 1..Len(fn)} : strip(k2) = K => first(k2) <= first(k)
  IN {K \in cleaned_keys(header, d) :
        last(winner(K)) <= Len(row) /\ strip(row[last(winner(K))]) # << >>}

\* test_rows: the data line is kept when it has a key and a non-empty value
test_rows_kept(header, line, d) ==
  line # << >> /\ cleaned_keys(header, d) # {} /\ cleaned_nonempty(header, line, d) # {}

\* field_names_look_valid: ';' is tested against ',', ',' against ';', and the
\* tab against both.
\* (variant that tests every candidate against the two others)
field_names_look_valid_AllOthers(d, field_names) ==
  \A fn \in field_names : \A i \in 1..Len(delimiters) : delimiters[i] # d => ~contains(fn, delimiters[i])
field_names_look_valid(d, field_names) ==
  IF d = ";" THEN \A fn \in field_names : ~contains(fn, ",")
  ELSE IF d = "," THEN \A fn \in field_names : ~contains(fn, ";")
  ELSE \A fn \in field_names : ~contains(fn, ",") /\ ~contains(fn, ";")

has_multiple_fields(header, d) == Cardinality(cleaned_keys(header, d)) > 1

non_empty_count(header, line, d) == Cardinality(cleaned_nonempty(header, line, d))

\* the acceptance test of one candidate
delimiter_works(header, line, d) ==
  /\ test_rows_kept(header, line, d)
  /\ has_multiple_fields(header, d)
  /\ non_empty_count(header, line, d) > 0
  /\ field_names_look_valid(d, cleaned_keys(header, d))

\* the loop over the candidates and the fallback to the comma
used_delimiter(header, line) ==
  LET works == {i \in 1..Len(delimiters) : delimiter_works(header, line, delimiters[i])}
  IN IF works # {} THEN delimiters[Min(works)] ELSE ","

InitProbe ==
  /\ jobs = [j \in JobIds |->
               [ status |-> "PROCESSING", user |-> IF j = 1 THEN "u1" ELSE "u2",
                 total_rows |-> 0, processed_rows |-> 0, issue_count |-> 0 ]]
  /\ csv = [j \in JobIds |-> << >>]
  /\ staging = << >>
  /\ issues = << >>
  /\ issue_items = {}
  /\ contacts = {}
  /\ queue = {}
  /\ pc = "call"
  /\ msg = NoMsg
  /\ \E h \in Lines(MaxHeader) \ {<< >>}, l \in Lines(MaxLine) :
       loc = [fn |-> "read_csv_file", header |-> h, line |-> l, used_delimiter |-> "none"]
  /\ outcome = NoOutcome
  /\ run = NoRun
  /\ nDeliv = 0
  /\ nEdits = 0
  /\ nFaults = 0

CallProbe ==
  /\ pc = "call"
  /\ loc' = [loc EXCEPT !.used_delimiter = used_delimiter(loc.header, loc.line)]
  /\ pc' = "called"
  /\ UNCHANGED <<issues, outcome>>
  /\ CallFrame

NextProbe == CallProbe

SpecProbe == InitProbe /\ [][NextProbe]_vars

\* ====================================================================
\* SQSConsumer.start, the polling loop: pc is the loop's position ("receive",
\* "message" = about to process messages[k] of the batch, "sleep" = in the
\* time.sleep of an except-handler, "stopped"), loc the batch.  What
\* process_job does to the tables is the subject of the flows above; here a
\* job message's run returns or raises and only the job's status stands for
\* its effect.
\* ====================================================================
MaxBatch == 2

Batches(q) ==
  {b \in UNION {[1..n -> q] : n \in 1..MaxBatch} :
     \A i, j \in 1..Len(b) : i # j => b[i] # b[j]}

InitLoop ==
  /\ jobs = [j \in JobIds |->
               [ status |-> "PENDING", user |-> IF j = 1 THEN "u1" ELSE "u2",
                 total_rows |-> 0, processed_rows |-> 0, issue_count |-> 0 ]]
  /\ csv = [j \in JobIds |-> << >>]
  /\ staging = << >>
  /\ issues = << >>
  /\ issue_items = {}
  /\ contacts = {}
  /\ queue \in SUBSET Msgs
  /\ pc = "receive"
  /\ msg = NoMsg
  /\ loc = [fn |-> "start", messages |-> << >>, k |-> 0]
  /\ outcome = NoOutcome
  /\ run = NoRun
  /\ nDeliv = 0
  /\ nEdits = 0
  /\ nFaults = 0

LoopFrame == UNCHANGED <<csv, staging, issues, issue_items, contacts, msg, run, nEdits, nFaults>>

\* receive_message returned a batch of one to MaxBatch messages
Receive ==
  /\ pc = "receive" /\ nDeliv < MaxDeliveries
  /\ \E b \in Batches(queue) : loc' = [loc EXCEPT !.messages = b, !.k = 1]
  /\ pc' = "message"
  /\ nDeliv' = nDeliv + 1
  /\ UNCHANGED <<jobs, queue, outcome>>
  /\ LoopFrame

\* receive_message returned no message: continue
ReceiveNothing ==
  /\ pc = "receive" /\ nDeliv < MaxDeliveries
  /\ nDeliv' = nDeliv + 1
  /\ UNCHANGED <<jobs, queue, pc, loc, outcome>>
  /\ LoopFrame

\* receive_message raised ClientError or another Exception: log, sleep
ReceiveRaises ==
  /\ pc = "receive" /\ nDeliv < MaxDeliveries
  /\ nDeliv' = nDeliv + 1
  /\ pc' = "sleep"
  /\ UNCHANGED <<jobs, queue, loc, outcome>>
  /\ LoopFrame

\* time.sleep(5) is over: back to the head of the while loop
SleepDone ==
  /\ pc = "sleep"
  /\ pc' = "receive"
  /\ UNCHANGED <<jobs, queue, loc, outcome, nDeliv>>
  /\ LoopFrame

\* where the loop stands after messages[k], whether _process_message returned
\* or raised ("except Exception: ... continue")
\* (variant in which a message that raised ends the loop)
after_message_StopsOnRaise(l, result) ==
  IF result = "raised" THEN [pc |-> "stopped", loc |-> l]
  ELSE IF l.k < Len(l.messages) THEN [pc |-> "message", loc |-> [l EXCEPT !.k = l.k + 1]]
  ELSE [pc |-> "receive", loc |-> l]
after_message(l, result) ==
  IF l.k < Len(l.messages) THEN [pc |-> "message", loc |-> [l EXCEPT !.k = l.k + 1]]
  ELSE [pc |-> "receive", loc |-> l]

\* _process_message(messages[k]) and the loop's handler around it
ProcessMessage ==
  /\ pc = "message"
  /\ LET m == loc.messages[loc.k]
     IN \E result \in {"returned", "raised"} :
          /\ CASE m.kind = "badjson" ->
                    /\ result = "returned"
                    /\ queue' = delete_malformed(queue, m)
                    /\ jobs' = jobs
                    /\ outcome' = [msg |-> m, result |-> "poison_deleted", at |-> "message"]
               [] missing_field(m) ->
                    /\ result = "raised"
                    /\ queue' = keep_on_invalid(queue, m)
                    /\ jobs' = jobs
                    /\ outcome' = [msg |-> m, result |-> result, at |-> "message"]
               [] OTHER ->
                    /\ IF precondition_skips(jobs, m.job)
                       THEN result = "returned" /\ jobs' = jobs
                       ELSE IF result = "returned"
                       THEN \E s \in {"NEEDS_REVIEW", "COMPLETED"} :
                              jobs' = job_update_status(jobs, m.job, s)
                       ELSE jobs' = fail_job(jobs, m.job)
                    /\ queue' = IF result = "returned" THEN delete_on_return(queue, m)
                                ELSE keep_on_raise(queue, m)
                    /\ outcome' = [msg |-> m, result |-> result, at |-> "message"]
          /\ pc' = after_message(loc, result).pc
          /\ loc' = after_message(loc, result).loc
  /\ UNCHANGED nDeliv
  /\ LoopFrame

\* KeyboardInterrupt while receiving, while a message is processed (no
\* "except Exception" catches it), or during the sleep: the loop is left
KeyboardInterrupt ==
  /\ pc \in {"receive", "message", "sleep"}
  /\ pc' = "stopped"
  /\ outcome' = [msg |-> IF pc = "message" THEN loc.messages[loc.k] ELSE NoMsg,
                 result |-> "KeyboardInterrupt", at |-> pc]
  /\ IF pc = "message" /\ loc.messages[loc.k].kind = "job"
        /\ ~precondition_skips(jobs, loc.messages[loc.k].job)
     THEN \E started \in BOOLEAN :
            jobs' = IF started THEN job_update_status(jobs, loc.messages[loc.k].job, "PROCESSING")
                    ELSE jobs
     ELSE jobs' = jobs
  /\ UNCHANGED <<queue, loc, nDeliv>>
  /\ LoopFrame

NextLoop ==
  \/ Receive
  \/ ReceiveNothing
  \/ ReceiveRaises
  \/ SleepDone
  \/ ProcessMessage
  \/ KeyboardInterrupt

SpecLoop == InitLoop /\ [][NextLoop]_vars

\* ====================================================================
\* Properties
\* ====================================================================
StagingOf(j) == {s \in 1..Len(staging) : staging[s].job = j}
IssuesOf(j) == {n \in 1..Len(issues) : issues[n].job = j}
HasContact(s) == \E c \in contacts : c.staging_id = s

\* a step that ends a delivery (the consumer is back at its receive loop)
Ends == pc' = "idle" /\ (pc # "idle" \/ nDeliv' # nDeliv)

\* C1 (I6, P3): no job is COMPLETED while one of its staging rows is ISSUE or
\* one of its Issues is unresolved (stated for the runs without any injected
\* failure, where it already fails).
C1_CompletedIsClean ==
  \A j \in JobIds :
    (nFaults = 0 /\ jobs[j].status = "COMPLETED") =>
      /\ \A s \in StagingOf(j) : staging[s].status # "ISSUE"
      /\ \A n \in IssuesOf(j) : issues[n].resolved

\* C2 (I4, P4): after every committed operation a Contact exists for a staging
\* row if and only if the row's status is SUCCESS.
C2_ContactIffSuccess ==
  \A s \in 1..Len(staging) : HasContact(s) <=> staging[s].status = "SUCCESS"

\* C3 (P1): with no external edit and no failure, a redelivery of a job's
\* message leaves staging, issues, issue_items and contacts as the previous
\* delivery left them (so k redeliveries end as one delivery does).
C3_RedeliveryIdempotent ==
  [][ (Ends /\ run.again /\ nEdits = 0 /\ nFaults' = 0)
        => <<staging', issues', issue_items', contacts'>>
             = <<run.db[2], run.db[3], run.db[4], run.db[5]>> ]_vars

\* C4 (I5): an Issue is resolved if and only if no staging row linked to it
\* has status ISSUE; stated after the last committed operation of a delivery
\* that returned, in runs without any injected failure (where it already
\* fails).
C4_ResolvedIffNoIssueRow ==
  [][ (Ends /\ outcome'.result = "returned" /\ nFaults' = 0)
        => \A n \in 1..Len(issues') :
             issues'[n].resolved <=> unresolved_count(staging', issue_items', n) = 0 ]_vars

\* C5 (P6): when a reprocess run returns, an Issue of the job that has linked
\* staging rows is resolved if and only if every staging row linked to it is
\* READY, SUCCESS or DISCARD.
C5_AutoResolution ==
  [][ (Ends /\ run.flow = "reprocess" /\ outcome'.result = "returned" /\ nFaults' = 0)
        => \A n \in 1..Len(issues') :
             (issues'[n].job = loc.job /\ LinkedStaging(issue_items', n) # {}) =>
               ( issues'[n].resolved <=>
                   \A s \in LinkedStaging(issue_items', n) :
                      staging'[s].status \in {"READY", "SUCCESS", "DISCARD"} ) ]_vars

\* C6: at the end of a reprocess run the job goes to NEEDS_REVIEW if an Issue
\* of the job is unresolved, and to consolidation otherwise.
C6_BranchByUnresolvedIssues ==
  [][ (pc = "re_decide" /\ nFaults' = 0)
        => ( (\E n \in IssuesOf(loc.job) : ~issues[n].resolved)
               <=> jobs'[loc.job].status = "NEEDS_REVIEW" ) ]_vars

C8_AckIffReturned ==
  [][ (Ends /\ outcome'.msg.kind = "job")
        => /\ outcome'.msg \in queue
           /\ (outcome'.msg \notin queue') <=> (outcome'.result = "returned")
           /\ outcome'.result = "raised" => queue' = queue ]_vars

C8_Witness ==
  /\ outcome.result = "returned" /\ outcome.msg = JobMsg(1) /\ outcome.at = "re_decide"
  /\ JobMsg(1) \notin queue
  /\ jobs[1].status = "NEEDS_REVIEW"

\* C9: a message without job_id or s3_key is deleted from the queue.
C9_MissingFieldDeleted ==
  (outcome.msg.kind = "nofield" /\ outcome.result # "none") => outcome.msg \notin queue

\* C10: the delivery of a message whose job does not exist or is COMPLETED
\* returns, changes no row of any table and deletes the message.
C10_StaleIsNoOp ==
  [][ \A m \in Msgs :
        ( /\ pc = "idle" /\ nDeliv' = nDeliv + 1
          /\ m.kind = "job"
          /\ m = (IF msg' # NoMsg THEN msg' ELSE outcome'.msg)
          /\ (m.job \in DOMAIN jobs => jobs[m.job].status = "COMPLETED") )
        => /\ db' = db
           /\ pc' = "idle"
           /\ outcome'.result = "returned"
           /\ m \notin queue' ]_vars

C10_Witness ==
  /\ outcome = [msg |-> JobMsg(1), result |-> "returned", at |-> "idle"]
  /\ jobs[1].status = "COMPLETED"
  /\ contacts # {}
  /\ JobMsg(1) \notin queue

\* the step in which a flow writes the job's metadata (update_metadata)
WritesMetadata == pc \in {"row", "re_row"} /\ pc' \in {"decide", "re_decide"}

\* C11 (I7): when the processor has written the job metadata, issue_count is
\* the number of Issue rows of the job (stated for runs without any injected
\* failure).
C11_IssueCountIsIssues ==
  [][ (WritesMetadata /\ nFaults' = 0)
        => jobs'[loc.job].issue_count = Cardinality(IssuesOf(loc.job)) ]_vars

\* C12 (I7): in every reachable state processed_rows <= total_rows for every
\* job.
C12_ProcessedAtMostTotal ==
  \A j \in JobIds : jobs[j].processed_rows <= jobs[j].total_rows

\* C13 (I2): with a single worker there is at most one Issue row per
\* (job_id, issue_type, issue_key).
C13_IssueTripleUnique ==
  \A m, n \in 1..Len(issues) :
    (issues[m].job = issues[n].job /\ issues[m].type = issues[n].type
       /\ issues[m].key = issues[n].key) => m = n

\* get_or_create has returned an existing Issue: two staging rows are linked
\* to the one Issue, and a reprocess run has gone through it again.
C13_Witness ==
  /\ Len(issues) = 1
  /\ Cardinality(LinkedStaging(issue_items, 1)) = 2
  /\ outcome.result = "returned" /\ outcome.at = "re_decide"

\* C14: get_or_create is an atomic upsert: when two workers have both
\* returned from a call with the same (job_id, type, key), exactly one Issue
\* row with that triple exists and both callers hold it.
C14_AtomicUpsert ==
  \A v, w \in Workers :
    ( /\ v # w
      /\ pc[v] = "call" /\ pc[w] = "call"
      /\ loc[v].id # 0 /\ loc[w].id # 0
      /\ loc[v].args = loc[w].args )
    => /\ Cardinality(FindIssue(issues, loc[v].args.job, loc[v].args.type,
                                 loc[v].args.key)) = 1
       /\ loc[v].id = loc[w].id

\* C15 (I1): no two staging rows of one job share a row_hash, and every
\* staging row belongs to exactly one job of the jobs table.
C15_RowHashUnique ==
  /\ \A s, u \in 1..Len(staging) :
        (staging[s].job = staging[u].job /\ staging[s].row_hash = staging[u].row_hash)
          => s = u
  /\ \A s \in 1..Len(staging) : Cardinality({j \in JobIds : staging[s].job = j}) = 1

\* two CSV rows with the same fields were staged for one job, and the job's
\* message has been delivered again since
C15_Witness ==
  /\ Len(staging) = 2
  /\ staging[1].job = staging[2].job
  /\ row_data_of(staging[1]) = row_data_of(staging[2])
  /\ outcome.result = "returned" /\ outcome.at = "re_decide"

\* C16 (I8, P5): existence and duplicate checks are per user. While a flow
\* validates rows, the e-mails it takes as existing are e-mails of contacts of
\* the job's own user and the e-mails it takes as duplicated are e-mails of
\* the job's own rows; every EXISTING_EMAIL Issue of a job is keyed by the
\* e-mail of a contact of the job's own user.
C16_PerUserIsolation ==
  /\ pc \in {"row", "row_validate", "row_link", "re_row", "re_resolve", "re_link", "re_status"}
       => /\ loc.exist \subseteq
               {c.email : c \in {c \in contacts : c.user = jobs[loc.job].user}}
          /\ loc.dup \subseteq
               {normalize_email(csv[loc.job][i].email) : i \in 1..Len(csv[loc.job])}
                 \cup {normalize_email(staging[s].email) : s \in StagingOf(loc.job)}
  /\ \A n \in 1..Len(issues) :
       issues[n].type = "EXISTING_EMAIL"
         => \E c \in contacts : /\ c.user = jobs[issues[n].job].user
                                /\ issues[n].key = <<"email", c.email>>

\* two users each own a contact with the same e-mail: the later job's row
\* was validated while the other user's contact existed
C16_Witness ==
  /\ nFaults = 0
  /\ \E c, d \in contacts : c.user = "u1" /\ d.user = "u2" /\ c.email = d.email

\* every row of the job's CSV passes validation against the CSV itself and
\* against the contacts cs of the job's user
AllRowsPass(j, cs) ==
  /\ csv[j] # << >>
  /\ \A i \in 1..Len(csv[j]) :
       /\ csv[j][i].email # None
       /\ validate_row(csv[j][i], _identify_duplicate_emails(csv[j]),
                       {c.email : c \in {c \in cs : c.user = jobs[j].user}}).is_valid

\* C17 (S1): the first delivery for a PENDING job without staging rows whose
\* N >= 1 CSV rows all pass validation ends, when nothing fails, with the job
\* COMPLETED, total_rows = processed_rows = N, issue_count = 0, N staging
\* rows all SUCCESS and N contacts of the job's user, one per row.
C17_HappyPath ==
  [][ ( /\ Ends /\ run.flow = "initial" /\ ~run.again /\ nFaults' = 0
        /\ AllRowsPass(loc.job, run.db[5]) )
      => LET j == loc.job
             N == Len(csv[j])
             rows == {s \in 1..Len(staging') : staging'[s].job = j}
         IN /\ jobs'[j].status = "COMPLETED"
            /\ jobs'[j].total_rows = N /\ jobs'[j].processed_rows = N
            /\ jobs'[j].issue_count = 0
            /\ Cardinality(rows) = N
            /\ \A s \in rows : staging'[s].status = "SUCCESS"
            /\ \A s \in rows :
                  Cardinality({c \in contacts' : c.staging_id = s}) = 1
            /\ \A c \in contacts' : c.staging_id \in rows => c.user = jobs[j].user
            /\ Cardinality({c \in contacts' : c.staging_id \in rows}) = N ]_vars

\* a two-row CSV went through in one delivery
C17_Witness ==
  /\ nDeliv = 1 /\ nFaults = 0 /\ nEdits = 0
  /\ outcome = [msg |-> JobMsg(1), result |-> "returned", at |-> "cons_complete"]
  /\ jobs[1].status = "COMPLETED" /\ jobs[1].total_rows = 2 /\ jobs[1].processed_rows = 2
  /\ Cardinality({c \in contacts : c.user = "u1"}) = 2
  /\ \A s \in StagingOf(1) : staging[s].status = "SUCCESS"

\* the CSV of scenario S2: row 1 without e-mail, row 2 with a malformed one
S2Csv == << Row("", "Jo", "Day", "Co"), Row("not-an-email", "Kim", "Lee", "Co") >>

\* the first delivery for a job whose CSV is S2Csv ends here, nothing failed
S2Ends == Ends /\ run.flow = "initial" /\ ~run.again /\ nFaults' = 0 /\ csv[loc.job] = S2Csv

\* what S2 leaves behind for job j when the INVALID_EMAIL Issue has key k
S2Result(j, k) ==
  LET rows == {s \in 1..Len(staging') : staging'[s].job = j}
      iss == {n \in 1..Len(issues') : issues'[n].job = j}
  IN /\ jobs'[j].status = "NEEDS_REVIEW"
     /\ jobs'[j].issue_count = 2
     /\ Cardinality(rows) = 2
     /\ \A s \in rows : staging'[s].status = "ISSUE"
     /\ Cardinality(iss) = 2
     /\ \E m, n \in iss :
          /\ issues'[m].type = "MISSING_REQUIRED_FIELD" /\ issues'[m].key = <<"row", "1">>
          /\ issues'[n].type = "INVALID_EMAIL" /\ issues'[n].key = k

\* C18 as stated (S2): the initial flow on S2Csv ends with the job
\* NEEDS_REVIEW, issue_count = 2, both staging rows ISSUE, one
\* MISSING_REQUIRED_FIELD Issue keyed row_1 and one INVALID_EMAIL Issue keyed
\* row_2.
C18_S2_KeyRow2 ==
  [][ S2Ends => S2Result(loc.job, <<"row", "2">>) ]_vars

\* C18 as amended: the same, with the INVALID_EMAIL Issue keyed by the
\* normalized e-mail of the row, not-an-email (the row number is the key
\* only when the e-mail is empty).
C18_S2_KeyEmail ==
  [][ S2Ends => S2Result(loc.job, <<"email", "not-an-email">>) ]_vars

\* the S2 delivery has ended
C18_Witness ==
  /\ csv[1] = S2Csv /\ nDeliv = 1 /\ nFaults = 0 /\ nEdits = 0
  /\ outcome = [msg |-> JobMsg(1), result |-> "returned", at |-> "decide"]
  /\ jobs[1].status = "NEEDS_REVIEW" /\ Len(issues) = 2

\* row i of the CSV rows has every required field and a well-formed e-mail
WellFormedRow(rows, i) ==
  /\ \A n \in 1..Len(REQUIRED_FIELDS) : FieldValue(rows[i], REQUIRED_FIELDS[n]) # ""
  /\ EMAIL_PATTERN(Strip(rows[i].email))

\* the rows of the CSV whose normalized e-mail is that of row i
SameEmailRows(rows, i) ==
  {k \in 1..Len(rows) : /\ Truthy(rows[k].email)
                        /\ normalize_email(rows[k].email) = normalize_email(rows[i].email)}

\* the staging rows the initial flow created for row i of job j's CSV
StagedFor(st, j, i) == {s \in 1..Len(st) : st[s].job = j /\ st[s].row_hash[2] = i}

\* the Issues a staging row is linked to
IssuesLinkedTo(items, s) == {it[1] : it \in {it \in items : it[2] = s}}

\* C19 (S3, 4.5): when the first delivery for a job ends and nothing failed,
\* every CSV row with all required fields and a well-formed e-mail whose
\* normalized e-mail occurs in two or more rows is staged once, with status
\* ISSUE, and linked to exactly the one DUPLICATE_EMAIL Issue of the job keyed
\* by that e-mail, whatever the other fields are, and the job is
\* NEEDS_REVIEW; a row with an empty e-mail is linked to no DUPLICATE_EMAIL
\* Issue.
C19_CsvDuplicates ==
  [][ (Ends /\ run.flow = "initial" /\ ~run.again /\ nFaults' = 0)
      => LET j == loc.job
             rows == csv[j]
         IN \A i \in 1..Len(rows) :
              /\ (rows[i].email # None /\ WellFormedRow(rows, i)
                    /\ Cardinality(SameEmailRows(rows, i)) >= 2)
                  => /\ jobs'[j].status = "NEEDS_REVIEW"
                     /\ Cardinality(StagedFor(staging', j, i)) = 1
                     /\ \A s \in StagedFor(staging', j, i) :
                          /\ staging'[s].status = "ISSUE"
                          /\ \E n \in 1..Len(issues') :
                               /\ IssuesLinkedTo(issue_items', s) = {n}
                               /\ issues'[n].job = j
                               /\ issues'[n].type = "DUPLICATE_EMAIL"
                               /\ issues'[n].key = <<"email", normalize_email(rows[i].email)>>
                               /\ FindIssue(issues', j, "DUPLICATE_EMAIL", issues'[n].key) = {n}
              /\ (rows[i].email # None /\ Strip(rows[i].email) = "")
                  => \A s \in StagedFor(staging', j, i) :
                       \A n \in IssuesLinkedTo(issue_items', s) :
                         issues'[n].type # "DUPLICATE_EMAIL" ]_vars

\* the state a reprocess run r of job j started from is that of S5: the job
\* NEEDS_REVIEW, its only Issue n an unresolved DUPLICATE_EMAIL Issue linking
\* its two staging rows d and k, d set to DISCARD, k still ISSUE and valid but
\* for the duplicate
AfterDiscard(r, j, n, d, k) ==
  /\ r.flow = "reprocess"
  /\ LET js == r.db[1]  st == r.db[2]  is == r.db[3]  items == r.db[4]
     IN /\ js[j].status = "NEEDS_REVIEW"
        /\ {m \in 1..Len(is) : is[m].job = j} = {n}
        /\ is[n].type = "DUPLICATE_EMAIL" /\ ~is[n].resolved
        /\ d # k
        /\ {s \in 1..Len(st) : st[s].job = j} = {d, k}
        /\ LinkedStaging(items, n) = {d, k}
        /\ st[d].status = "DISCARD" /\ st[k].status = "ISSUE"
        /\ st[k].email # None /\ WellFormedRow(st, k)

\* C20 (S5, 4.4.2): a reprocess run that starts from the state of S5 and in
\* which nothing fails finds no duplicate e-mail (the DISCARD row is left
\* out of the detection), turns the remaining row READY and then SUCCESS,
\* resolves the Issue with resolved_by = "system", creates exactly one
\* contact, for the remaining row, and ends with the job COMPLETED.
C20_ReprocessAfterDiscard ==
  [][ \A j \in JobIds, n \in 1..Len(issues), d, k \in 1..Len(staging) :
        (AfterDiscard(run, j, n, d, k) /\ loc.job = j /\ nFaults' = 0)
        => /\ pc' = "re_row" => loc'.dup = {}
           /\ (staging'[k].status # staging[k].status)
                => \/ staging[k].status = "ISSUE" /\ staging'[k].status = "READY"
                   \/ staging[k].status = "READY" /\ staging'[k].status = "SUCCESS"
           /\ Ends
                => /\ jobs'[j].status = "COMPLETED"
                   /\ staging'[k].status = "SUCCESS" /\ staging'[d].status = "DISCARD"
                   /\ issues'[n].resolved /\ issues'[n].resolved_by = "system"
                   /\ \E c \in contacts' :
                        /\ contacts' \ run.db[5] = {c}
                        /\ c.staging_id = k /\ c.user = jobs[j].user ]_vars

\* the S5 run has ended: one row DISCARD, the other SUCCESS with its contact,
\* the Issue resolved by the system
C20_Witness ==
  /\ nFaults = 0 /\ nDeliv = 2 /\ nEdits = 1
  /\ jobs[1].status = "COMPLETED"
  /\ Len(staging) = 2 /\ Len(issues) = 1
  /\ issues[1].type = "DUPLICATE_EMAIL" /\ issues[1].resolved_by = "system"
  /\ \E d, k \in 1..2 : /\ staging[d].status = "DISCARD" /\ staging[k].status = "SUCCESS"
                        /\ {c.staging_id : c \in contacts} = {k}

\* a field value that is absent, empty or whitespace-only
Blank(v) == v \in {None, "", " "}

\* C21 (4.1): validate_row returns MISSING_REQUIRED_FIELD if one of email,
\* first_name, last_name, company is absent, empty or whitespace-only; else
\* INVALID_EMAIL if the trimmed e-mail does not match the pattern; else
\* DUPLICATE_EMAIL if the normalized e-mail is in duplicate_emails; else
\* EXISTING_EMAIL if it is in existing_emails; else it is valid.
C21_ValidationOrder ==
  (pc = "called" /\ loc.fn = "validate_row") =>
    LET r == loc.row_data
        res == outcome.result
    IN IF Blank(r.email) \/ Blank(r.first_name) \/ Blank(r.last_name) \/ Blank(r.company)
       THEN ~res.is_valid /\ res.issue_type = "MISSING_REQUIRED_FIELD"
       ELSE IF ~EMAIL_PATTERN(Strip(r.email))
       THEN ~res.is_valid /\ res.issue_type = "INVALID_EMAIL"
       ELSE IF Strip(Lower(r.email)) \in loc.duplicate_emails
       THEN ~res.is_valid /\ res.issue_type = "DUPLICATE_EMAIL"
       ELSE IF Strip(Lower(r.email)) \in loc.existing_emails
       THEN ~res.is_valid /\ res.issue_type = "EXISTING_EMAIL"
       ELSE res.is_valid

\* a row whose e-mail, once trimmed and lowercased, is both duplicated and
\* existing was validated
C21_Witness ==
  /\ pc = "called" /\ loc.fn = "validate_row"
  /\ loc.row_data = Row(" A@x.io ", "Ann", "Lee", "Acme")
  /\ loc.duplicate_emails = {"a@x.io"} /\ loc.existing_emails = {"a@x.io", "b@x.io"}
  /\ outcome.result.issue_type = "DUPLICATE_EMAIL"

\* C22 (section 3, lifecycles): a step of the worker (any step but an
\* external edit) keeps every staging row, and changes the status of a row
\* only from ISSUE to READY, from READY to ISSUE or from READY to SUCCESS
\* (also in the runs where an operation fails).
C22_StagingLifecycle ==
  [][ (nEdits' = nEdits)
      => /\ Len(staging') >= Len(staging)
         /\ \A s \in 1..Len(staging) :
              /\ staging'[s].job = staging[s].job
              /\ staging'[s].status # staging[s].status
                   => <<staging[s].status, staging'[s].status>> \in
                        {<<"ISSUE", "READY">>, <<"READY", "ISSUE">>, <<"READY", "SUCCESS">>} ]_vars

SansStatus(s) == [s EXCEPT !.status = "-"]

\* C24 (4.4 step 3, 4.4.2): a delivery that passes the precondition check
\* takes the reprocess flow exactly when the job has a staging row at that
\* time, else the initial flow; a reprocess run never fetches the CSV (it
\* is never at the read and holds no CSV rows) and every one of its steps
\* leaves the staging table with the same rows, statuses aside.
C24_FlowSelection ==
  [][ /\ (pc = "idle" /\ pc' # "idle")
           => /\ run'.flow \in {"initial", "reprocess"}
              /\ run'.flow = "reprocess" <=> \E s \in 1..Len(staging) : staging[s].job = msg'.job
      /\ run.flow = "reprocess"
           => /\ pc' # "read_csv" /\ loc'.rows = << >>
              /\ Len(staging') = Len(staging)
              /\ \A s \in 1..Len(staging) : SansStatus(staging'[s]) = SansStatus(staging[s]) ]_vars

\* a reprocess run for job 2 has gone through its rows while job 1 has
\* staging rows of its own
C24_Witness ==
  /\ run.flow = "reprocess" /\ loc.job = 2 /\ pc = "re_decide"
  /\ StagingOf(1) # {} /\ StagingOf(2) # {}

\* the staging rows of job j that a run has brought to an end: READY (or
\* beyond) or linked to an Issue
HandledRows(st, items, j) ==
  {s \in 1..Len(st) : /\ st[s].job = j
                      /\ st[s].status \in {"READY", "SUCCESS"} \/ IssuesLinkedTo(items, s) # {}}

C26_OneContactPerRow ==
  [][ /\ \A c, d \in contacts' : c.staging_id = d.staging_id => c = d
      /\ contacts \subseteq contacts' ]_vars

\* a consolidation ran into the contact that an earlier, interrupted
\* consolidation had created for the row, after the row had been edited
C26_Witness ==
  /\ outcome.result = "raised" /\ outcome.at = "cons_create"
  /\ \E c \in contacts : /\ c.staging_id \in StagingOf(1)
                          /\ staging[c.staging_id].email # c.email

\* C27 (4.3, Issue.autoResolveIfAllStagingResolved): a call of
\* check_and_mark_resolved_if_all_staging_resolved returns true exactly when
\* no staging row linked to the Issue has status ISSUE; it then leaves the
\* Issue resolved with resolved_by = "system", and otherwise leaves the
\* issues table as it was.
C27_AutoResolveIff ==
  [][ (pc = "call" /\ pc' = "called"
         /\ loc'.fn = "check_and_mark_resolved_if_all_staging_resolved")
      => LET n == loc'.issue_id
             noneIssue == \A s \in 1..Len(staging) :
                             <<n, s>> \in issue_items => staging[s].status # "ISSUE"
         IN /\ outcome'.result = noneIssue
            /\ noneIssue => issues'[n].resolved /\ issues'[n].resolved_by = "system"
            /\ ~noneIssue => issues' = issues ]_vars

\* C28 (7, poison pill): the delivery of a message whose body is not valid
\* JSON removes that message from the queue, starts no run of process_job
\* and leaves every table as it was.
C28_MalformedDeleted ==
  [][ \A m \in Msgs :
        (pc = "idle" /\ nDeliv' = nDeliv + 1 /\ m.kind = "badjson" /\ outcome'.msg = m)
        => /\ m \in queue /\ queue' = queue \ {m}
           /\ pc' = "idle" /\ msg' = NoMsg /\ run' = NoRun
           /\ db' = db ]_vars

\* the malformed message was delivered, and deleted, after job 1 had been
\* processed
C28_Witness ==
  /\ outcome.msg = BadJsonMsg /\ outcome.result = "poison_deleted"
  /\ BadJsonMsg \notin queue
  /\ jobs[1].status = "NEEDS_REVIEW" /\ StagingOf(1) # {}

\* C29 (4.4.1 step 2, 7): when the initial flow finds an empty CSV, or the
\* fetch of the blob fails, the run raises with the job FAILED, all of
\* staging, issues, issue_items and contacts as they were before the run and
\* the message still on the queue; and a delivery for a FAILED job without
\* staging rows takes the initial flow again.
C29_JobFatalInput ==
  [][ /\ ( /\ pc = "read_csv" /\ pc' = "idle" /\ outcome'.result = "raised"
           /\ csv[loc.job] = << >> \/ nFaults' = nFaults + 1 )
          => /\ jobs'[loc.job].status = "FAILED"
             /\ <<staging', issues', issue_items', contacts'>>
                  = <<run.db[2], run.db[3], run.db[4], run.db[5]>>
             /\ \A s \in 1..Len(staging') : staging'[s].job # loc.job
             /\ outcome'.msg = msg /\ msg \in queue'
      /\ ( /\ pc = "idle" /\ pc' # "idle"
           /\ jobs[msg'.job].status = "FAILED" /\ StagingOf(msg'.job) = {} )
          => run'.flow = "initial" /\ pc' = "read_csv" ]_vars

\* the second delivery for a job with an empty CSV failed like the first
C29_Witness ==
  /\ csv[1] = << >> /\ nDeliv = 2 /\ nFaults = 0
  /\ outcome = [msg |-> JobMsg(1), result |-> "raised", at |-> "read_csv"]
  /\ jobs[1].status = "FAILED" /\ JobMsg(1) \in queue
  /\ staging = << >> /\ issues = << >> /\ contacts = {}

\* two rows that differ at most in the letter case and surrounding
\* whitespace of the e-mail and in the surrounding whitespace of the other
\* three fields
SameCanonicalRow(r1, r2) ==
  /\ Strip(Lower(r1.email)) = Strip(Lower(r2.email))
  /\ Strip(r1.first_name) = Strip(r2.first_name)
  /\ Strip(r1.last_name) = Strip(r2.last_name)
  /\ Strip(r1.company) = Strip(r2.company)

\* C30 (P2): generate_row_hash gives two rows the same value exactly when
\* they have the same job id and row number and differ at most in the letter
\* case and surrounding whitespace of the e-mail and the surrounding
\* whitespace of first_name, last_name and company (sha256 taken as
\* injective; the rows are maps, so key order does not exist).
C30_RowHashDeterminism ==
  (pc = "called" /\ loc.fn = "generate_row_hash") =>
    ( outcome.result[1] = outcome.result[2]
        <=> /\ loc.a[1] = loc.b[1] /\ loc.a[2] = loc.b[2]
            /\ SameCanonicalRow(loc.a[3], loc.b[3]) )

\* the hash of a row and of the same row with a padded, upper-case e-mail
C30_Witness ==
  /\ pc = "called" /\ loc.fn = "generate_row_hash"
  /\ loc.a = <<1, 1, Row("a@x.io", "Ann", "Lee", "Acme")>>
  /\ loc.b = <<1, 1, Row(" A@x.io ", "Ann", "Lee", "Acme")>>
  /\ outcome.result[1] = outcome.result[2]

\* C31: when a row fails validation in the reprocess flow and the Issue obtained
\* for it is resolved, the Issue's resolution fields are cleared if and only if
\* a staging row already linked to it has status ISSUE at that moment, that is
\* before the current row is linked and set to ISSUE.
C31_UnresolveOnReprocess ==
  [][(pc = "re_row" /\ pc' = "re_link" /\ loc'.iid \in 1..Len(issues)
      /\ issues[loc'.iid].resolved)
     => LET n == loc'.iid
            cleared == ~issues'[n].resolved /\ issues'[n].resolved_by = None
        IN /\ cleared <=> \E s \in LinkedStaging(issue_items, n) : staging[s].status = "ISSUE"
           /\ ~cleared => issues'[n] = issues[n]]_vars

\* the Issue of the failing row was resolved when the run began and is open
\* again, a row linked to it being ISSUE while the current row is not yet ISSUE
C31_Witness ==
  /\ pc = "re_link" /\ run.flow = "reprocess"
  /\ loc.iid \in 1..Len(run.db[3]) /\ run.db[3][loc.iid].resolved
  /\ ~issues[loc.iid].resolved /\ issues[loc.iid].resolved_by = None
  /\ staging[loc.recs[loc.i]].status # "ISSUE"
  /\ \E s \in LinkedStaging(issue_items, loc.iid) : staging[s].status = "ISSUE"

\* the Issue of the failing row is resolved and stays so: no linked row is ISSUE
C31_StaysResolved ==
  /\ pc = "re_link" /\ issues[loc.iid].resolved
  /\ \A s \in LinkedStaging(issue_items, loc.iid) : staging[s].status # "ISSUE"

\* C32: a reprocess run never changes total_rows of any job, and its metadata
\* write changes processed_rows and issue_count of its own job and nothing else.
C32_ReprocessKeepsTotalRows ==
  [][/\ (run.flow = "reprocess" \/ run'.flow = "reprocess")
          => \A j \in JobIds : jobs'[j].total_rows = jobs[j].total_rows
     /\ (pc = "re_row" /\ pc' = "re_decide")
          => \A j \in JobIds : \A f \in DOMAIN jobs[j] :
               jobs'[j][f] # jobs[j][f]
                  => j = loc.job /\ f \in {"processed_rows", "issue_count"}]_vars

\* a reprocess run has written new counters for a job whose total_rows was
\* written by the initial flow, and total_rows is still that number
C32_Witness ==
  /\ pc = "re_decide" /\ run.flow = "reprocess"
  /\ jobs[loc.job].total_rows = Len(csv[loc.job]) /\ jobs[loc.job].total_rows > 0
  /\ jobs[loc.job].total_rows = run.db[1][loc.job].total_rows
  /\ jobs[loc.job].issue_count # run.db[1][loc.job].issue_count
  /\ Len(loc.recs) # jobs[loc.job].total_rows

\* C33: the delimiter chosen is the first of ';', ',', tab for which the first
\* parsed row has more than one column, a non-empty value and no column name
\* containing any other candidate delimiter, and ',' if there is none.
C33_DelimiterProbe ==
  (pc = "called" /\ loc.fn = "read_csv_file") =>
     LET accepted == {i \in 1..Len(delimiters) :
            /\ test_rows_kept(loc.header, loc.line, delimiters[i])
            /\ has_multiple_fields(loc.header, delimiters[i])
            /\ non_empty_count(loc.header, loc.line, delimiters[i]) > 0
            /\ field_names_look_valid_AllOthers(delimiters[i],
                                                cleaned_keys(loc.header, delimiters[i]))}
     IN loc.used_delimiter = IF accepted # {} THEN delimiters[Min(accepted)] ELSE ","

\* C34: when a first delivery in the initial flow has ended without an
\* injected failure, every CSV row whose e-mail is null, empty or blank is
\* staged once with status ISSUE and linked to a MISSING_REQUIRED_FIELD Issue
\* of the job, and the job is not FAILED.
C34_BlankEmailIsIssue ==
  [][ (Ends /\ run.flow = "initial" /\ ~run.again /\ nFaults' = 0)
      => LET j == loc.job
             rows == csv[j]
         IN \A i \in 1..Len(rows) :
              Blank(rows[i].email)
                => /\ jobs'[j].status # "FAILED"
                   /\ Cardinality(StagedFor(staging', j, i)) = 1
                   /\ \A s \in StagedFor(staging', j, i) :
                        /\ staging'[s].status = "ISSUE"
                        /\ \E n \in IssuesLinkedTo(issue_items', s) :
                             /\ issues'[n].job = j
                             /\ issues'[n].type = "MISSING_REQUIRED_FIELD" ]_vars

\* the same for the rows whose e-mail is the empty text, in the runs over a
\* CSV without a null e-mail
C34_EmptyEmailIsIssue ==
  [][ (Ends /\ run.flow = "initial" /\ ~run.again /\ nFaults' = 0
         /\ ~identify_raises(csv[loc.job]))
      => LET j == loc.job
             rows == csv[j]
         IN \A i \in 1..Len(rows) :
              Blank(rows[i].email)
                => /\ jobs'[j].status # "FAILED"
                   /\ Cardinality(StagedFor(staging', j, i)) = 1
                   /\ \A s \in StagedFor(staging', j, i) :
                        /\ staging'[s].status = "ISSUE"
                        /\ \E n \in IssuesLinkedTo(issue_items', s) :
                             /\ issues'[n].job = j
                             /\ issues'[n].type = "MISSING_REQUIRED_FIELD" ]_vars

\* C35: a message whose processing raised does not stop the loop: the next
\* message of the batch is processed next, or after the last one the loop
\* receives again; an error of receive_message leads through the sleep back to
\* receive; and the loop stops only on KeyboardInterrupt.
C35_LoopGoesOn ==
  [][ /\ (pc = "message" /\ outcome'.result = "raised")
          => IF loc.k < Len(loc.messages)
             THEN pc' = "message" /\ loc'.messages = loc.messages /\ loc'.k = loc.k + 1
             ELSE pc' = "receive"
      /\ (pc = "sleep" /\ pc' # "stopped") => pc' = "receive" /\ queue' = queue
      /\ (pc = "receive" /\ pc' # "stopped") => pc' \in {"receive", "message", "sleep"}
      /\ (pc # "stopped" /\ pc' = "stopped") => outcome'.result = "KeyboardInterrupt" ]_vars

\* the second message of a batch is about to be processed after the first
\* one raised
C35_Witness ==
  /\ pc = "message" /\ loc.fn = "start" /\ loc.k = 2
  /\ outcome.result = "raised" /\ outcome.msg = loc.messages[1]
  /\ outcome.msg \in queue

\* the loop receives again after the sleep that followed a queue error
C35_AfterQueueError ==
  pc = "message" /\ loc.fn = "start" /\ nDeliv = 2 /\ outcome = NoOutcome

\* the job row of j and the staging, issue, issue_item and contact rows of j
JobRows(j) ==
  << jobs[j],
     {<<s, staging[s]>> : s \in StagingOf(j)},
     {<<n, issues[n]>> : n \in IssuesOf(j)},
     {it \in issue_items : it[1] \in IssuesOf(j) \/ it[2] \in StagingOf(j)},
     {c \in contacts : c.staging_id \in StagingOf(j)} >>

\* C36: once a job is COMPLETED, no step of the single worker, whatever the
\* message it is processing, changes the job row or a staging, issue,
\* issue_item or contact row of that job.
C36_CompletedIsAbsorbing ==
  [][ \A j \in JobIds : jobs[j].status = "COMPLETED" => JobRows(j)' = JobRows(j) ]_vars

\* a message of job 1 was delivered after job 1 had been COMPLETED with a
\* contact, and a message of job 2 was processed as well
C36_Witness ==
  /\ jobs[1].status = "COMPLETED"
  /\ outcome.msg = JobMsg(1) /\ outcome.result = "returned" /\ outcome.at = "idle"
  /\ \E c \in contacts : c.staging_id \in StagingOf(1)
  /\ StagingOf(2) # {}

\* the contacts of user u, among cs, whose e-mail normalizes to that of row
OwnedMatches(cs, u, row) ==
  {c \in cs : contacts_user_id(c) = u /\ normalize_email(c.email) = normalize_email(row.email)}

\* C37: when the first delivery of a job of user U ends and nothing failed,
\* every CSV row with all required fields, a well-formed e-mail and no
\* duplicate in the CSV, whose normalized e-mail is that of a contact user U
\* had when the run began, is staged ISSUE and linked to an EXISTING_EMAIL
\* Issue of the job, in whatever letter case the contact's e-mail is stored.
C37_ExistingAcrossJobs ==
  [][ (Ends /\ run.flow = "initial" /\ ~run.again /\ nFaults' = 0)
      => LET j == loc.job
             rows == csv[j]
         IN \A i \in 1..Len(rows) :
              ( /\ rows[i].email # None /\ WellFormedRow(rows, i)
                /\ Cardinality(SameEmailRows(rows, i)) = 1
                /\ OwnedMatches(run.db[5], jobs[j].user, rows[i]) # {} )
              => \A s \in StagedFor(staging', j, i) :
                   /\ staging'[s].status = "ISSUE"
                   /\ \E n \in IssuesLinkedTo(issue_items', s) :
                        issues'[n].job = j /\ issues'[n].type = "EXISTING_EMAIL" ]_vars

\* the same when the contact's e-mail is stored in its normalized form
C37_ExistingSameCase ==
  [][ (Ends /\ run.flow = "initial" /\ ~run.again /\ nFaults' = 0)
      => LET j == loc.job
             rows == csv[j]
         IN \A i \in 1..Len(rows) :
              ( /\ rows[i].email # None /\ WellFormedRow(rows, i)
                /\ Cardinality(SameEmailRows(rows, i)) = 1
                /\ \E c \in OwnedMatches(run.db[5], jobs[j].user, rows[i]) :
                     c.email = normalize_email(c.email) )
              => \A s \in StagedFor(staging', j, i) :
                   /\ staging'[s].status = "ISSUE"
                   /\ \E n \in IssuesLinkedTo(issue_items', s) :
                        issues'[n].job = j /\ issues'[n].type = "EXISTING_EMAIL" ]_vars

\* staging rows exist for some rows of job j's CSV and not for all of them
PartlyStaged(st, j) ==
  /\ \E i \in 1..Len(csv[j]) : StagedFor(st, j, i) # {}
  /\ \E i \in 1..Len(csv[j]) : StagedFor(st, j, i) = {}

\* C38: when the redelivery that follows an interrupted initial run (the job
\* was left PROCESSING with staging rows for only some of the CSV rows) has
\* returned, every CSV row has exactly one staging row.
C38_ResumeStagesEveryRow ==
  [][ (Ends /\ run.again /\ outcome'.result = "returned"
         /\ run.db[1][loc.job].status = "PROCESSING" /\ PartlyStaged(run.db[2], loc.job))
      => \A i \in 1..Len(csv[loc.job]) :
           Cardinality(StagedFor(staging', loc.job, i)) = 1 ]_vars

\* the part that holds: no run ever leaves two staging rows for one CSV row
C38_AtMostOneStagingPerRow ==
  \A j \in JobIds : \A i \in 1..Len(csv[j]) : Cardinality(StagedFor(staging, j, i)) <= 1

\* C39: when a process_job run has ended (returned or raised), every staging
\* row of its job with status ISSUE is linked to an unresolved Issue of the
\* same job (stated for the runs without any injected failure, where it
\* already fails).
C39_ReviewSurface ==
  [][ (Ends /\ outcome'.result \in {"returned", "raised"} /\ nFaults' = 0)
      => \A s \in 1..Len(staging') :
           (staging'[s].job = outcome'.msg.job /\ staging'[s].status = "ISSUE")
             => \E n \in IssuesLinkedTo(issue_items', s) :
                  ~issues'[n].resolved /\ issues'[n].job = staging'[s].job ]_vars

\* the same for the first delivery of a job
C39_ReviewSurfaceInitial ==
  [][ (Ends /\ outcome'.result \in {"returned", "raised"} /\ nFaults' = 0
         /\ run.flow = "initial" /\ ~run.again)
      => \A s \in 1..Len(staging') :
           (staging'[s].job = outcome'.msg.job /\ staging'[s].status = "ISSUE")
             => \E n \in IssuesLinkedTo(issue_items', s) :
                  ~issues'[n].resolved /\ issues'[n].job = staging'[s].job ]_vars

\* the job a step of the worker runs process_job for (0: no run in this step)
RunJob ==
  IF pc # "idle" THEN msg.job
  ELSE IF nDeliv' = nDeliv THEN 0
  ELSE IF msg' # NoMsg THEN msg'.job
  ELSE IF outcome'.msg.kind = "job" THEN outcome'.msg.job
  ELSE 0

\* the job row of j and the staging, issue and issue_item rows of j
ReviewRows(j) ==
  << jobs[j],
     {<<s, staging[s]>> : s \in StagingOf(j)},
     {<<n, issues[n]>> : n \in IssuesOf(j)},
     {it \in issue_items : it[1] \in IssuesOf(j) \/ it[2] \in StagingOf(j)} >>

\* C40: a step of a process_job run for job J leaves the job row, the staging
\* rows, the Issues and the issue_items of every other job as they are, and
\* every issue_item it creates links an Issue and a staging row of one job.
C40_CrossJobIsolation ==
  [][ RunJob # 0
      => /\ \A j \in JobIds \ {RunJob} : ReviewRows(j)' = ReviewRows(j)
         /\ \A it \in issue_items' \ issue_items :
              /\ issues'[it[1]].job = staging'[it[2]].job
              /\ issues'[it[1]].job = RunJob ]_vars

\* both jobs have been processed and each has a staging row linked to an
\* INVALID_EMAIL Issue with the same key
C40_Witness ==
  /\ pc = "idle"
  /\ \E a, b \in issue_items :
       /\ issues[a[1]].job = 1 /\ staging[a[2]].job = 1
       /\ issues[b[1]].job = 2 /\ staging[b[2]].job = 2
       /\ issues[a[1]].type = issues[b[1]].type /\ issues[a[1]].key = issues[b[1]].key

====
